---- MODULE Spec2Model ----
(***************************************************************************)
(* A model of the array-backed binary prefix trie: the node arena, the     *)
(* traversal / insertion state machines, the depth-first iterators and     *)
(* the read-only and mutable trie views.                                   *)
(*                                                                         *)
(* Prefixes are bit strings, written as sequences over {0, 1}.  Arena      *)
(* indices are 0-based as in the source; the arena itself is a TLA+        *)
(* sequence, so node i is table[i + 1].  None stands for Option::None of   *)
(* an index or of a value.                                                 *)
(***************************************************************************)
EXTENDS Integers, Sequences, FiniteSets, TLC

\* Longest prefix (number of bits) the model draws keys from.
MaxLen == 2

\* Longest sequence of pairs a map is built from in one go.
MaxBulk == 3

\* Largest number of nodes the arena may grow to (insert is not called
\* when it could exceed it).
MaxNodes == 4

None == -1

Values == {1, 2}

Prefixes == UNION {[1..n -> {0, 1}] : n \in 0..MaxLen}

VARIABLES
    table,   \* the arena: Vec<Node<P, T>>
    stored,  \* history: for each prefix, the value the calls so far left there
    views,   \* the live mutable views (TrieViewMut), as a sequence of ViewLoc
    kept     \* history: a value was taken with the tree kept as it was
             \* (remove_keep_tree, or remove on a mutable view)

vars == <<table, stored, views, kept>>

----------------------------------------------------------------------------
(* The Prefix capability                                                   *)

zero == <<>>

contains(a, b) ==
    /\ Len(a) <= Len(b)
    /\ \A i \in 1..Len(a) : a[i] = b[i]

RECURSIVE CommonLen(_, _, _)
CommonLen(a, b, n) ==
    IF n < Len(a) /\ n < Len(b) /\ a[n + 1] = b[n + 1]
    THEN CommonLen(a, b, n + 1)
    ELSE n

longest_common_prefix(a, b) == SubSeq(a, 1, CommonLen(a, b, 0))

\* The bit of b just after the end of a; a bit past the end of b is 0, as
\* the bits of a prefix beyond its length are masked out.
to_right(a, b) == Len(b) > Len(a) /\ b[Len(a) + 1] = 1

\* Lexicographic order of prefixes: a prefix before everything it
\* contains, the 0 side before the 1 side.
Less(a, b) ==
    LET n == CommonLen(a, b, 0) IN
    IF n = Len(a) THEN Len(b) > n
    ELSE IF n = Len(b) THEN FALSE
    ELSE a[n + 1] < b[n + 1]

----------------------------------------------------------------------------
(* The arena                                                               *)

Nd(t, i) == t[i + 1]

Node(p, v, l, r) == [prefix |-> p, value |-> v, left |-> l, right |-> r]

\* Table::default with a value in the root.
TableDefault_root_value == <<Node(zero, 1, None, None)>>

TableDefault == <<Node(zero, None, None, None)>>

get_child(t, idx, right) ==
    IF right THEN Nd(t, idx).right ELSE Nd(t, idx).left

\* set_child linking the child on both sides of the node.
set_child_both_sides(t, idx, child, right) ==
    [t EXCEPT ![idx + 1].right = child, ![idx + 1].left = child]

set_child(t, idx, child, right) ==
    IF right
    THEN [t EXCEPT ![idx + 1].right = child]
    ELSE [t EXCEPT ![idx + 1].left = child]

\* clear_child clearing the link of the other side.
clear_child_other_side(t, idx, right) ==
    IF right
    THEN [t EXCEPT ![idx + 1].left = None]
    ELSE [t EXCEPT ![idx + 1].right = None]

clear_child(t, idx, right) ==
    IF right
    THEN [t EXCEPT ![idx + 1].right = None]
    ELSE [t EXCEPT ![idx + 1].left = None]

new_node(t, p, v) == Append(t, Node(p, v, None, None))

\* get_direction taking the side opposite to the one to_right gives.
get_direction_wrong_side(t, cur, prefix) ==
    LET cur_p == Nd(t, cur).prefix IN
    IF cur_p = prefix
    THEN [kind |-> "Reached", next |-> None, right |-> FALSE]
    ELSE LET right == ~to_right(cur_p, prefix)
             child == get_child(t, cur, right) IN
         IF child # None /\ contains(Nd(t, child).prefix, prefix)
         THEN [kind |-> "Enter", next |-> child, right |-> right]
         ELSE [kind |-> "Missing", next |-> None, right |-> FALSE]

get_direction(t, cur, prefix) ==
    LET cur_p == Nd(t, cur).prefix IN
    IF cur_p = prefix
    THEN [kind |-> "Reached", next |-> None, right |-> FALSE]
    ELSE LET right == to_right(cur_p, prefix)
             child == get_child(t, cur, right) IN
         IF child # None /\ contains(Nd(t, child).prefix, prefix)
         THEN [kind |-> "Enter", next |-> child, right |-> right]
         ELSE [kind |-> "Missing", next |-> None, right |-> FALSE]

Dir(kind, next, right, child_right, branch_prefix, prefix_right) ==
    [kind |-> kind, next |-> next, right |-> right, child_right |-> child_right,
     branch_prefix |-> branch_prefix, prefix_right |-> prefix_right]

\* get_direction_for_insert without the test for the new prefix containing
\* the child: a branching node is asked for in that case too.
get_direction_for_insert_no_new_child(t, cur, prefix) ==
    LET cur_p == Nd(t, cur).prefix IN
    IF cur_p = prefix
    THEN Dir("Reached", None, FALSE, FALSE, zero, FALSE)
    ELSE LET right == to_right(cur_p, prefix)
             child == get_child(t, cur, right) IN
         IF child # None
         THEN LET child_p == Nd(t, child).prefix IN
              IF contains(child_p, prefix)
              THEN Dir("Enter", child, right, FALSE, zero, FALSE)
              ELSE LET branch_prefix == longest_common_prefix(prefix, child_p) IN
                   Dir("NewBranch", None, right, FALSE, branch_prefix,
                       to_right(branch_prefix, prefix))
         ELSE Dir("NewLeaf", None, right, FALSE, zero, FALSE)

get_direction_for_insert(t, cur, prefix) ==
    LET cur_p == Nd(t, cur).prefix IN
    IF cur_p = prefix
    THEN Dir("Reached", None, FALSE, FALSE, zero, FALSE)
    ELSE LET right == to_right(cur_p, prefix)
             child == get_child(t, cur, right) IN
         IF child # None
         THEN LET child_p == Nd(t, child).prefix IN
              IF contains(child_p, prefix)
              THEN Dir("Enter", child, right, FALSE, zero, FALSE)
              ELSE IF contains(prefix, child_p)
              THEN Dir("NewChild", None, right, to_right(prefix, child_p), zero, FALSE)
              ELSE LET branch_prefix == longest_common_prefix(prefix, child_p) IN
                   Dir("NewBranch", None, right, FALSE, branch_prefix,
                       to_right(branch_prefix, prefix))
         ELSE Dir("NewLeaf", None, right, FALSE, zero, FALSE)

----------------------------------------------------------------------------
(* Insertion                                                               *)

\* PrefixMap::entry: descend with get_direction_for_insert until it stops.
RECURSIVE entry_from(_, _, _)
entry_from(t, idx, prefix) ==
    LET d == get_direction_for_insert(t, idx, prefix) IN
    IF d.kind = "Enter"
    THEN entry_from(t, d.next, prefix)
    ELSE [idx |-> idx, direction |-> d,
          occupied |-> (d.kind = "Reached" /\ Nd(t, idx).value # None)]

entry(t, prefix) == entry_from(t, 0, prefix)

\* VacantEntry::insert treating a reached node like a missing leaf: a new
\* node is pushed below it.
VacantEntry_insert_reached_pushes(t, e, prefix, v) ==
    LET d == e.direction IN
    CASE d.kind \in {"Reached", "NewLeaf"} ->
            LET new == Len(t)
                t1 == new_node(t, prefix, v) IN
            set_child(t1, e.idx, new, d.right)
      [] d.kind = "NewChild" ->
            LET new == Len(t)
                t1 == new_node(t, prefix, v)
                child == get_child(t1, e.idx, d.right)
                t2 == set_child(t1, e.idx, new, d.right) IN
            set_child(t2, new, child, d.child_right)
      [] d.kind = "NewBranch" ->
            LET branch == Len(t)
                t1 == new_node(t, d.branch_prefix, None)
                new == Len(t1)
                t2 == new_node(t1, prefix, v)
                child == get_child(t2, e.idx, d.right)
                t3 == set_child(t2, e.idx, branch, d.right)
                t4 == set_child(t3, branch, new, d.prefix_right) IN
            set_child(t4, branch, child, ~d.prefix_right)

\* VacantEntry::insert putting the new node that contains the old child
\* into the slot of the child, and moving the child to the end of the arena.
VacantEntry_insert_child_moved(t, e, prefix, v) ==
    LET d == e.direction IN
    CASE d.kind = "Reached" ->
            [t EXCEPT ![e.idx + 1].value = v]
      [] d.kind = "NewLeaf" ->
            LET new == Len(t)
                t1 == new_node(t, prefix, v) IN
            set_child(t1, e.idx, new, d.right)
      [] d.kind = "NewChild" ->
            LET child == get_child(t, e.idx, d.right)
                moved == Len(t)
                t1 == Append(t, Nd(t, child))
                t2 == [t1 EXCEPT ![child + 1] = Node(prefix, v, None, None)] IN
            set_child(t2, child, moved, d.child_right)
      [] d.kind = "NewBranch" ->
            LET branch == Len(t)
                t1 == new_node(t, d.branch_prefix, None)
                new == Len(t1)
                t2 == new_node(t1, prefix, v)
                child == get_child(t2, e.idx, d.right)
                t3 == set_child(t2, e.idx, branch, d.right)
                t4 == set_child(t3, branch, new, d.prefix_right) IN
            set_child(t4, branch, child, ~d.prefix_right)

\* VacantEntry::insert leaving the old child off the new branching node.
VacantEntry_insert_branch_drops_child(t, e, prefix, v) ==
    LET d == e.direction IN
    CASE d.kind = "Reached" ->
            [t EXCEPT ![e.idx + 1].value = v]
      [] d.kind = "NewLeaf" ->
            LET new == Len(t)
                t1 == new_node(t, prefix, v) IN
            set_child(t1, e.idx, new, d.right)
      [] d.kind = "NewChild" ->
            LET new == Len(t)
                t1 == new_node(t, prefix, v)
                child == get_child(t1, e.idx, d.right)
                t2 == set_child(t1, e.idx, new, d.right) IN
            set_child(t2, new, child, d.child_right)
      [] d.kind = "NewBranch" ->
            LET branch == Len(t)
                t1 == new_node(t, d.branch_prefix, None)
                new == Len(t1)
                t2 == new_node(t1, prefix, v)
                t3 == set_child(t2, e.idx, branch, d.right) IN
            set_child(t3, branch, new, d.prefix_right)

\* VacantEntry::insert hanging the old child on the wrong side of the new
\* node that contains it.
VacantEntry_insert_child_wrong_side(t, e, prefix, v) ==
    LET d == e.direction IN
    CASE d.kind = "Reached" ->
            [t EXCEPT ![e.idx + 1].value = v]
      [] d.kind = "NewLeaf" ->
            LET new == Len(t)
                t1 == new_node(t, prefix, v) IN
            set_child(t1, e.idx, new, d.right)
      [] d.kind = "NewChild" ->
            LET new == Len(t)
                t1 == new_node(t, prefix, v)
                child == get_child(t1, e.idx, d.right)
                t2 == set_child(t1, e.idx, new, d.right) IN
            set_child(t2, new, child, ~d.child_right)
      [] d.kind = "NewBranch" ->
            LET branch == Len(t)
                t1 == new_node(t, d.branch_prefix, None)
                new == Len(t1)
                t2 == new_node(t1, prefix, v)
                child == get_child(t2, e.idx, d.right)
                t3 == set_child(t2, e.idx, branch, d.right)
                t4 == set_child(t3, branch, new, d.prefix_right) IN
            set_child(t4, branch, child, ~d.prefix_right)

\* VacantEntry::insert linking a new leaf by the length of the arena after
\* the push, one past the index of the leaf.
VacantEntry_insert_leaf_past_end(t, e, prefix, v) ==
    LET d == e.direction IN
    CASE d.kind = "Reached" ->
            [t EXCEPT ![e.idx + 1].value = v]
      [] d.kind = "NewLeaf" ->
            LET t1 == new_node(t, prefix, v)
                new == Len(t1) IN
            set_child(t1, e.idx, new, d.right)
      [] d.kind = "NewChild" ->
            LET new == Len(t)
                t1 == new_node(t, prefix, v)
                child == get_child(t1, e.idx, d.right)
                t2 == set_child(t1, e.idx, new, d.right) IN
            set_child(t2, new, child, d.child_right)
      [] d.kind = "NewBranch" ->
            LET branch == Len(t)
                t1 == new_node(t, d.branch_prefix, None)
                new == Len(t1)
                t2 == new_node(t1, prefix, v)
                child == get_child(t2, e.idx, d.right)
                t3 == set_child(t2, e.idx, branch, d.right)
                t4 == set_child(t3, branch, new, d.prefix_right) IN
            set_child(t4, branch, child, ~d.prefix_right)

VacantEntry_insert(t, e, prefix, v) ==
    LET d == e.direction IN
    CASE d.kind = "Reached" ->
            [t EXCEPT ![e.idx + 1].value = v]
      [] d.kind = "NewLeaf" ->
            LET new == Len(t)
                t1 == new_node(t, prefix, v) IN
            set_child(t1, e.idx, new, d.right)
      [] d.kind = "NewChild" ->
            LET new == Len(t)
                t1 == new_node(t, prefix, v)
                child == get_child(t1, e.idx, d.right)
                t2 == set_child(t1, e.idx, new, d.right) IN
            set_child(t2, new, child, d.child_right)
      [] d.kind = "NewBranch" ->
            LET branch == Len(t)
                t1 == new_node(t, d.branch_prefix, None)
                new == Len(t1)
                t2 == new_node(t1, prefix, v)
                child == get_child(t2, e.idx, d.right)
                t3 == set_child(t2, e.idx, branch, d.right)
                t4 == set_child(t3, branch, new, d.prefix_right) IN
            set_child(t4, branch, child, ~d.prefix_right)

\* Entry::insert
Entry_insert(t, prefix, v) ==
    LET e == entry(t, prefix) IN
    IF e.occupied
    THEN [t EXCEPT ![e.idx + 1].value = v]
    ELSE VacantEntry_insert(t, e, prefix, v)

\* Entry::or_insert replacing the value of an occupied entry by the default.
Entry_or_insert_overwrites(t, prefix, default) ==
    LET e == entry(t, prefix) IN
    IF e.occupied
    THEN [t EXCEPT ![e.idx + 1].value = default]
    ELSE VacantEntry_insert(t, e, prefix, default)

\* Entry::or_insert: a vacant entry inserts the default; an occupied one
\* keeps its value (get_or_insert).
Entry_or_insert(t, prefix, default) ==
    LET e == entry(t, prefix) IN
    IF e.occupied
    THEN IF Nd(t, e.idx).value = None
         THEN [t EXCEPT ![e.idx + 1].value = default]
         ELSE t
    ELSE VacantEntry_insert(t, e, prefix, default)

\* Entry::and_modify: f is applied to the value of an occupied entry; a
\* vacant entry is handed back as it is.
Entry_and_modify(t, prefix, f) ==
    LET e == entry(t, prefix) IN
    IF e.occupied
    THEN IF Nd(t, e.idx).value = None
         THEN t
         ELSE [t EXCEPT ![e.idx + 1].value = f[Nd(t, e.idx).value]]
    ELSE t

\* What Entry::insert returns: the value the entry held (Option<T>).
Entry_insert_returns(t, prefix, v) ==
    LET e == entry(t, prefix) IN
    IF e.occupied THEN Nd(t, e.idx).value ELSE None

\* Number of nodes an insert of prefix allocates.
Grows(t, prefix) ==
    LET k == entry(t, prefix).direction.kind IN
    CASE k = "Reached" -> 0
      [] k = "NewBranch" -> 2
      [] OTHER -> 1

----------------------------------------------------------------------------
(* Exact lookup and removal on the map                                     *)

\* PrefixMap::get: exact match by get_direction; a value only at a node
\* with exactly that prefix.
RECURSIVE get_from(_, _, _)
get_from(t, idx, prefix) ==
    LET d == get_direction(t, idx, prefix) IN
    CASE d.kind = "Reached" -> Nd(t, idx).value
      [] d.kind = "Enter" -> get_from(t, d.next, prefix)
      [] OTHER -> None

get(t, prefix) == get_from(t, 0, prefix)

\* The path from the root to the node of prefix: the (parent, side) pairs
\* entered, and the node reached (None when the prefix has no node).
RECURSIVE path_from(_, _, _, _)
path_from(t, idx, prefix, path) ==
    LET d == get_direction(t, idx, prefix) IN
    CASE d.kind = "Reached" -> [idx |-> idx, path |-> path]
      [] d.kind = "Enter" ->
            path_from(t, d.next, prefix,
                      Append(path, [idx |-> idx, right |-> d.right]))
      [] OTHER -> [idx |-> None, path |-> path]

\* Pruning after a removal: a non-root node without a value and with at
\* most one child is spliced out; when it was a leaf, its parent is looked
\* at in turn.
RECURSIVE prune(_, _, _)
prune(t, idx, path) ==
    IF path = <<>> THEN t
    ELSE
        LET n == Nd(t, idx)
            par == path[Len(path)] IN
        IF n.value # None \/ (n.left # None /\ n.right # None) THEN t
        ELSE IF n.left # None \/ n.right # None
        THEN LET child_right == (n.right # None)
                 child == get_child(t, idx, child_right)
                 t1 == clear_child(t, idx, child_right) IN
             set_child(t1, par.idx, child, par.right)
        ELSE prune(clear_child(t, par.idx, par.right), par.idx,
                   SubSeq(path, 1, Len(path) - 1))

remove(t, prefix) ==
    LET f == path_from(t, 0, prefix, <<>>) IN
    IF f.idx = None THEN t
    ELSE prune([t EXCEPT ![f.idx + 1].value = None], f.idx, f.path)

\* What remove and remove_keep_tree return: the value the prefix held.
remove_returns(t, prefix) ==
    LET f == path_from(t, 0, prefix, <<>>) IN
    IF f.idx = None THEN None ELSE Nd(t, f.idx).value

remove_keep_tree(t, prefix) ==
    LET f == path_from(t, 0, prefix, <<>>) IN
    IF f.idx = None THEN t
    ELSE [t EXCEPT ![f.idx + 1].value = None]

----------------------------------------------------------------------------
(* Iterators                                                               *)

\* The None of an Option<(&P, &T)>; an item is the pair <<prefix, value>>.
NoItem == <<>>

\* Iter::next pushing the left child before the right one.
RECURSIVE Iter_next_left_first(_, _)
Iter_next_left_first(t, nodes) ==
    IF nodes = <<>> THEN [item |-> <<>>, nodes |-> nodes]
    ELSE
        LET cur == nodes[Len(nodes)]
            node == Nd(t, cur)
            popped == SubSeq(nodes, 1, Len(nodes) - 1)
            n1 == IF node.left # None THEN Append(popped, node.left) ELSE popped
            n2 == IF node.right # None THEN Append(n1, node.right) ELSE n1 IN
        IF node.value # None
        THEN [item |-> <<node.prefix, node.value>>, nodes |-> n2]
        ELSE Iter_next_left_first(t, n2)

\* Iter::next: pop until a node with a value is found; the right child is
\* pushed before the left one.  The result is the item (None at the end)
\* and the stack left behind.
RECURSIVE Iter_next(_, _)
Iter_next(t, nodes) ==
    IF nodes = <<>> THEN [item |-> NoItem, nodes |-> nodes]
    ELSE
        LET cur == nodes[Len(nodes)]
            node == Nd(t, cur)
            popped == SubSeq(nodes, 1, Len(nodes) - 1)
            n1 == IF node.right # None THEN Append(popped, node.right) ELSE popped
            n2 == IF node.left # None THEN Append(n1, node.left) ELSE n1 IN
        IF node.value # None
        THEN [item |-> <<node.prefix, node.value>>, nodes |-> n2]
        ELSE Iter_next(t, n2)

\* Everything an iterator yields until next() returns None.
RECURSIVE Iter_collect(_, _)
Iter_collect(t, nodes) ==
    LET r == Iter_next(t, nodes) IN
    IF r.item = NoItem THEN <<>>
    ELSE <<r.item>> \o Iter_collect(t, r.nodes)

\* PrefixMap::iter
iter(t) == Iter_collect(t, <<0>>)

\* lpm_children_iter_start without the case of a child contained in prefix.
RECURSIVE lpm_children_iter_start_no_contained(_, _, _)
lpm_children_iter_start_no_contained(t, idx, prefix) ==
    LET cur_p == Nd(t, idx).prefix IN
    IF cur_p = prefix THEN <<idx>>
    ELSE
        LET right == to_right(cur_p, prefix)
            c == get_child(t, idx, right) IN
        IF c = None THEN <<>>
        ELSE IF contains(Nd(t, c).prefix, prefix)
        THEN lpm_children_iter_start_no_contained(t, c, prefix)
        ELSE <<>>

RECURSIVE lpm_children_iter_start_from(_, _, _)
lpm_children_iter_start_from(t, idx, prefix) ==
    LET cur_p == Nd(t, idx).prefix IN
    IF cur_p = prefix THEN <<idx>>
    ELSE
        LET right == to_right(cur_p, prefix)
            c == get_child(t, idx, right) IN
        IF c = None THEN <<>>
        ELSE IF contains(Nd(t, c).prefix, prefix)
        THEN lpm_children_iter_start_from(t, c, prefix)
        ELSE IF contains(prefix, Nd(t, c).prefix) THEN <<c>>
        ELSE <<>>

lpm_children_iter_start(t, prefix) == lpm_children_iter_start_from(t, 0, prefix)

\* PrefixMap::children
children(t, prefix) == Iter_collect(t, lpm_children_iter_start(t, prefix))

\* The loop of Cover::next, from the node idx.
RECURSIVE Cover_loop(_, _, _)
Cover_loop(t, idx, prefix) ==
    LET d == get_direction(t, idx, prefix) IN
    IF d.kind # "Enter" THEN [item |-> NoItem, idx |-> idx]
    ELSE
        LET e == Nd(t, d.next) IN
        IF e.value # None
        THEN [item |-> <<e.prefix, e.value>>, idx |-> d.next]
        ELSE Cover_loop(t, d.next, prefix)

\* Cover::next without the look at the root entry.
Cover_next_skip_root(t, idx, prefix) ==
    Cover_loop(t, IF idx = None THEN 0 ELSE idx, prefix)

\* Cover::next forgetting where it is when it returns nothing.
Cover_next_forgets(t, idx, prefix) ==
    LET r == IF idx = None /\ Nd(t, 0).value # None
             THEN [item |-> <<Nd(t, 0).prefix, Nd(t, 0).value>>, idx |-> 0]
             ELSE Cover_loop(t, IF idx = None THEN 0 ELSE idx, prefix) IN
    IF r.item = NoItem THEN [item |-> NoItem, idx |-> None] ELSE r

\* Cover::next: idx is the iterator's field (None before the first call).
Cover_next(t, idx, prefix) ==
    IF idx = None /\ Nd(t, 0).value # None
    THEN [item |-> <<Nd(t, 0).prefix, Nd(t, 0).value>>, idx |-> 0]
    ELSE Cover_loop(t, IF idx = None THEN 0 ELSE idx, prefix)

RECURSIVE Cover_collect(_, _, _)
Cover_collect(t, idx, prefix) ==
    LET r == Cover_next(t, idx, prefix) IN
    IF r.item = NoItem THEN <<>>
    ELSE <<r.item>> \o Cover_collect(t, r.idx, prefix)

\* PrefixMap::cover
cover(t, prefix) == Cover_collect(t, None, prefix)

\* FromIterator for PrefixMap: an empty map, then one insert per pair, in
\* the order of the sequence.
RECURSIVE from_iter_into(_, _, _)
from_iter_into(t, s, k) ==
    IF k > Len(s) THEN t
    ELSE from_iter_into(Entry_insert(t, s[k][1], s[k][2]), s, k + 1)

from_iter(s) == from_iter_into(TableDefault, s, 1)

----------------------------------------------------------------------------
(* Trie views                                                              *)

\* ViewLoc::Node(idx) and ViewLoc::Virtual(prefix, idx); NoView stands for
\* the None of an Option<TrieView>.
ViewNode(i) == [kind |-> "Node", prefix |-> zero, idx |-> i]
ViewVirtual(p, i) == [kind |-> "Virtual", prefix |-> p, idx |-> i]
NoView == [kind |-> "None", prefix |-> zero, idx |-> None]

ViewLoc_idx(loc) == loc.idx

\* TrieView::find with the virtual view put above the parent, not above
\* the child.
RECURSIVE TrieView_find_virtual_at_parent(_, _, _)
TrieView_find_virtual_at_parent(t, idx, prefix) ==
    LET d == get_direction_for_insert(t, idx, prefix) IN
    CASE d.kind = "Enter" -> TrieView_find_virtual_at_parent(t, d.next, prefix)
      [] d.kind = "Reached" -> ViewNode(idx)
      [] d.kind = "NewChild" -> ViewVirtual(prefix, idx)
      [] OTHER -> NoView

RECURSIVE TrieView_find_from(_, _, _)
TrieView_find_from(t, idx, prefix) ==
    LET d == get_direction_for_insert(t, idx, prefix) IN
    CASE d.kind = "Enter" -> TrieView_find_from(t, d.next, prefix)
      [] d.kind = "Reached" -> ViewNode(idx)
      [] d.kind = "NewChild" -> ViewVirtual(prefix, get_child(t, idx, d.right))
      [] OTHER -> NoView

TrieView_find(t, loc, prefix) == TrieView_find_from(t, ViewLoc_idx(loc), prefix)

RECURSIVE TrieView_find_exact_from(_, _, _)
TrieView_find_exact_from(t, idx, prefix) ==
    LET d == get_direction(t, idx, prefix) IN
    CASE d.kind = "Reached" ->
            IF Nd(t, idx).value # None THEN ViewNode(idx) ELSE NoView
      [] d.kind = "Enter" -> TrieView_find_exact_from(t, d.next, prefix)
      [] OTHER -> NoView

TrieView_find_exact(t, loc, prefix) ==
    TrieView_find_exact_from(t, ViewLoc_idx(loc), prefix)

\* TrieView::find_lpm remembering every node, with a value or not.
RECURSIVE TrieView_find_lpm_any_node(_, _, _, _)
TrieView_find_lpm_any_node(t, idx, best_match, prefix) ==
    LET d == get_direction(t, idx, prefix) IN
    IF d.kind = "Enter"
    THEN TrieView_find_lpm_any_node(t, d.next, idx, prefix)
    ELSE ViewNode(idx)

RECURSIVE TrieView_find_lpm_from(_, _, _, _)
TrieView_find_lpm_from(t, idx, best_match, prefix) ==
    LET best == IF Nd(t, idx).value # None THEN idx ELSE best_match
        d == get_direction(t, idx, prefix) IN
    IF d.kind = "Enter"
    THEN TrieView_find_lpm_from(t, d.next, best, prefix)
    ELSE IF best # None THEN ViewNode(best) ELSE NoView

TrieView_find_lpm(t, loc, prefix) ==
    TrieView_find_lpm_from(t, ViewLoc_idx(loc), None, prefix)

TrieView_left(t, loc) ==
    IF loc.kind = "Node"
    THEN IF Nd(t, loc.idx).left # None THEN ViewNode(Nd(t, loc.idx).left) ELSE NoView
    ELSE IF ~to_right(loc.prefix, Nd(t, loc.idx).prefix)
         THEN ViewNode(loc.idx) ELSE NoView

TrieView_right(t, loc) ==
    IF loc.kind = "Node"
    THEN IF Nd(t, loc.idx).right # None THEN ViewNode(Nd(t, loc.idx).right) ELSE NoView
    ELSE IF to_right(loc.prefix, Nd(t, loc.idx).prefix)
         THEN ViewNode(loc.idx) ELSE NoView

\* TrieView::iter (and TrieViewMut::iter, iter_mut, into_iter): the stack
\* starts with the index of the location.
TrieView_iter(t, loc) == Iter_collect(t, <<ViewLoc_idx(loc)>>)

TrieView_prefix(t, loc) ==
    IF loc.kind = "Node" THEN Nd(t, loc.idx).prefix ELSE loc.prefix

TrieView_value(t, loc) ==
    IF loc.kind = "Node" THEN Nd(t, loc.idx).value ELSE None

\* AsView::view and AsView::view_at on the map
view == ViewNode(0)

view_at(t, prefix) == TrieView_find(t, view, prefix)

----------------------------------------------------------------------------
(* Mutable views: a Result is ok (Ok or Err) and the view it carries.      *)

Ok(loc) == [ok |-> TRUE, loc |-> loc]
Err(loc) == [ok |-> FALSE, loc |-> loc]

RECURSIVE TrieViewMut_find_from(_, _, _, _)
TrieViewMut_find_from(t, self, idx, prefix) ==
    LET d == get_direction_for_insert(t, idx, prefix) IN
    CASE d.kind = "Enter" -> TrieViewMut_find_from(t, self, d.next, prefix)
      [] d.kind = "Reached" -> Ok(ViewNode(idx))
      [] d.kind = "NewChild" ->
            Ok(ViewVirtual(prefix, get_child(t, idx, d.right)))
      [] OTHER -> Err(self)

TrieViewMut_find(t, self, prefix) ==
    TrieViewMut_find_from(t, self, ViewLoc_idx(self), prefix)

RECURSIVE TrieViewMut_find_exact_from(_, _, _, _)
TrieViewMut_find_exact_from(t, self, idx, prefix) ==
    LET d == get_direction(t, idx, prefix) IN
    CASE d.kind = "Reached" ->
            IF Nd(t, idx).value # None THEN Ok(ViewNode(idx)) ELSE Err(self)
      [] d.kind = "Enter" -> TrieViewMut_find_exact_from(t, self, d.next, prefix)
      [] OTHER -> Err(self)

TrieViewMut_find_exact(t, self, prefix) ==
    TrieViewMut_find_exact_from(t, self, ViewLoc_idx(self), prefix)

RECURSIVE TrieViewMut_find_lpm_from(_, _, _, _, _)
TrieViewMut_find_lpm_from(t, self, idx, best_match, prefix) ==
    LET best == IF Nd(t, idx).value # None THEN idx ELSE best_match
        d == get_direction(t, idx, prefix) IN
    IF d.kind = "Enter"
    THEN TrieViewMut_find_lpm_from(t, self, d.next, best, prefix)
    ELSE IF best # None THEN Ok(ViewNode(best)) ELSE Err(self)

TrieViewMut_find_lpm(t, self, prefix) ==
    TrieViewMut_find_lpm_from(t, self, ViewLoc_idx(self), None, prefix)

\* TrieViewMut::left giving, when there is no left child, a view at the
\* node of the index instead of the view it was called on.
TrieViewMut_left_err_at_node(t, self) ==
    LET left_idx ==
            IF self.kind = "Node" THEN Nd(t, self.idx).left
            ELSE IF ~to_right(self.prefix, Nd(t, self.idx).prefix)
                 THEN self.idx ELSE None IN
    IF left_idx # None THEN Ok(ViewNode(left_idx)) ELSE Err(ViewNode(self.idx))

TrieViewMut_left(t, self) ==
    LET left_idx ==
            IF self.kind = "Node" THEN Nd(t, self.idx).left
            ELSE IF ~to_right(self.prefix, Nd(t, self.idx).prefix)
                 THEN self.idx ELSE None IN
    IF left_idx # None THEN Ok(ViewNode(left_idx)) ELSE Err(self)

\* TrieViewMut::right taking, at a virtual location, the test of left.
TrieViewMut_right_virtual_as_left(t, self) ==
    LET right_idx ==
            IF self.kind = "Node" THEN Nd(t, self.idx).right
            ELSE IF ~to_right(self.prefix, Nd(t, self.idx).prefix)
                 THEN self.idx ELSE None IN
    IF right_idx # None THEN Ok(ViewNode(right_idx)) ELSE Err(self)

TrieViewMut_right(t, self) ==
    LET right_idx ==
            IF self.kind = "Node" THEN Nd(t, self.idx).right
            ELSE IF to_right(self.prefix, Nd(t, self.idx).prefix)
                 THEN self.idx ELSE None IN
    IF right_idx # None THEN Ok(ViewNode(right_idx)) ELSE Err(self)

\* TrieViewMut::split handing out the left child on both sides.
TrieViewMut_split_left_twice(t, self) ==
    LET lr == IF self.kind = "Node"
              THEN <<Nd(t, self.idx).left, Nd(t, self.idx).left>>
              ELSE IF to_right(self.prefix, Nd(t, self.idx).prefix)
                   THEN <<None, self.idx>>
                   ELSE <<self.idx, None>> IN
    << IF lr[1] # None THEN ViewNode(lr[1]) ELSE NoView,
       IF lr[2] # None THEN ViewNode(lr[2]) ELSE NoView >>

\* TrieViewMut::split keeping a view of the node itself next to the view
\* of its right child.
TrieViewMut_split_keeps_self(t, self) ==
    LET lr == IF self.kind = "Node"
              THEN <<self.idx, Nd(t, self.idx).right>>
              ELSE IF to_right(self.prefix, Nd(t, self.idx).prefix)
                   THEN <<None, self.idx>>
                   ELSE <<self.idx, None>> IN
    << IF lr[1] # None THEN ViewNode(lr[1]) ELSE NoView,
       IF lr[2] # None THEN ViewNode(lr[2]) ELSE NoView >>

\* The pair (left, right) of optional views.
TrieViewMut_split(t, self) ==
    LET lr == IF self.kind = "Node"
              THEN <<Nd(t, self.idx).left, Nd(t, self.idx).right>>
              ELSE IF to_right(self.prefix, Nd(t, self.idx).prefix)
                   THEN <<None, self.idx>>
                   ELSE <<self.idx, None>> IN
    << IF lr[1] # None THEN ViewNode(lr[1]) ELSE NoView,
       IF lr[2] # None THEN ViewNode(lr[2]) ELSE NoView >>

\* TrieViewMut::remove taking the value of the node and its left child
\* with it.
TrieViewMut_remove_drops_left(t, self) ==
    IF self.kind = "Node"
    THEN [t EXCEPT ![self.idx + 1].value = None, ![self.idx + 1].left = None]
    ELSE t

\* TrieViewMut::remove taking the value of the node below a virtual
\* location as well.
TrieViewMut_remove_below_virtual(t, self) ==
    [t EXCEPT ![ViewLoc_idx(self) + 1].value = None]

\* TrieViewMut::remove: take the value of the node of the view, if the
\* view is at a node.
TrieViewMut_remove(t, self) ==
    IF self.kind = "Node"
    THEN [t EXCEPT ![self.idx + 1].value = None]
    ELSE t

\* What TrieViewMut::remove returns: the value it took.
TrieViewMut_remove_returns(t, self) ==
    IF self.kind = "Node" THEN Nd(t, self.idx).value ELSE None

\* TrieViewMut::has_left answering yes at every virtual location.
TrieViewMut_has_left_any_virtual(t, self) ==
    IF self.kind = "Node" THEN Nd(t, self.idx).left # None ELSE TRUE

\* TrieViewMut::has_left and has_right
TrieViewMut_has_left(t, self) ==
    IF self.kind = "Node" THEN Nd(t, self.idx).left # None
    ELSE ~to_right(self.prefix, Nd(t, self.idx).prefix)

TrieViewMut_has_right(t, self) ==
    IF self.kind = "Node" THEN Nd(t, self.idx).right # None
    ELSE to_right(self.prefix, Nd(t, self.idx).prefix)

\* TrieViewMut::node_mut: the index of the node a mutable reference is
\* given to (None for a virtual location).
TrieViewMut_node_mut(self) ==
    IF self.kind = "Node" THEN self.idx ELSE None

\* TrieViewMut::value_mut and prefix_value_mut: the index of the node whose
\* value a mutable reference is given to (None when there is no value).
TrieViewMut_value_mut(t, self) ==
    LET n == TrieViewMut_node_mut(self) IN
    IF n # None /\ Nd(t, n).value # None THEN n ELSE None

\* TrieViewMut::value and prefix_value
TrieViewMut_value(t, self) ==
    IF self.kind = "Node" THEN Nd(t, self.idx).value ELSE None

TrieViewMut_prefix_value(t, self) ==
    IF self.kind = "Node" /\ Nd(t, self.idx).value # None
    THEN <<Nd(t, self.idx).prefix, Nd(t, self.idx).value>>
    ELSE NoItem

\* TrieView::prefix_value
TrieView_prefix_value(t, loc) ==
    IF loc.kind = "Node" /\ Nd(t, loc.idx).value # None
    THEN <<Nd(t, loc.idx).prefix, Nd(t, loc.idx).value>>
    ELSE NoItem

\* IterMut::next pushing the left child twice.
RECURSIVE IterMut_next_left_twice(_, _)
IterMut_next_left_twice(t, nodes) ==
    IF nodes = <<>> THEN [item |-> None, nodes |-> nodes]
    ELSE
        LET cur == nodes[Len(nodes)]
            node == Nd(t, cur)
            popped == SubSeq(nodes, 1, Len(nodes) - 1)
            n1 == IF node.right # None THEN Append(popped, node.right) ELSE popped
            n2 == IF node.left # None
                  THEN Append(Append(n1, node.left), node.left) ELSE n1 IN
        IF node.value # None
        THEN [item |-> cur, nodes |-> n2]
        ELSE IterMut_next_left_twice(t, n2)

\* IterMut::next: as Iter::next, the item being the index of the node whose
\* value a mutable reference is given to (None at the end).
RECURSIVE IterMut_next(_, _)
IterMut_next(t, nodes) ==
    IF nodes = <<>> THEN [item |-> None, nodes |-> nodes]
    ELSE
        LET cur == nodes[Len(nodes)]
            node == Nd(t, cur)
            popped == SubSeq(nodes, 1, Len(nodes) - 1)
            n1 == IF node.right # None THEN Append(popped, node.right) ELSE popped
            n2 == IF node.left # None THEN Append(n1, node.left) ELSE n1 IN
        IF node.value # None
        THEN [item |-> cur, nodes |-> n2]
        ELSE IterMut_next(t, n2)

RECURSIVE IterMut_collect(_, _)
IterMut_collect(t, nodes) ==
    LET r == IterMut_next(t, nodes) IN
    IF r.item = None THEN <<>>
    ELSE <<r.item>> \o IterMut_collect(t, r.nodes)

\* TrieViewMut::iter_mut starting at the root of the arena instead of the
\* location of the view.
TrieViewMut_iter_mut_from_root(t, self) == IterMut_collect(t, <<0>>)

\* TrieViewMut::iter_mut, values_mut and into_iter: the stack starts with
\* the index of the location.
TrieViewMut_iter_mut(t, self) == IterMut_collect(t, <<ViewLoc_idx(self)>>)

\* A write of v through a mutable reference to the value of the node n.
Write(t, n, v) == [t EXCEPT ![n + 1].value = v]

\* AsViewMut::view_mut and AsViewMut::view_mut_at on the map
view_mut == ViewNode(0)

view_mut_at(t, prefix) ==
    LET r == TrieViewMut_find(t, view_mut, prefix) IN
    IF r.ok THEN r.loc ELSE NoView

----------------------------------------------------------------------------
Init ==
    /\ table = TableDefault
    /\ stored = [p \in Prefixes |-> None]
    /\ views = <<>>
    /\ kept = FALSE

\* The value 2 is a mark: at most one key holds it at a time.  No operation
\* looks at a value, so one marked key among keys holding 1 shows any mix-up
\* of values.
Markable(p, v) == v = 2 => \A q \in Prefixes \ {p} : stored[q] # 2

Insert(p, v) ==
    /\ views = <<>>
    /\ Markable(p, v)
    /\ Len(table) + Grows(table, p) <= MaxNodes
    /\ table' = Entry_insert(table, p, v)
    /\ stored' = [stored EXCEPT ![p] = v]
    /\ UNCHANGED <<views, kept>>

Remove(p) ==
    /\ views = <<>>
    /\ table' = remove(table, p)
    /\ stored' = [stored EXCEPT ![p] = None]
    /\ UNCHANGED <<views, kept>>

RemoveKeepTree(p) ==
    /\ views = <<>>
    /\ table' = remove_keep_tree(table, p)
    /\ stored' = [stored EXCEPT ![p] = None]
    /\ kept' = (kept \/ table' # table)
    /\ UNCHANGED views

\* The live views with the view at position i replaced by the views in new.
Replace(i, new) ==
    SubSeq(views, 1, i - 1) \o new \o SubSeq(views, i + 1, Len(views))

\* view_mut(): the map is borrowed mutably by the root view.
ViewMut ==
    /\ views = <<>>
    /\ views' = <<view_mut>>
    /\ UNCHANGED <<table, stored, kept>>

\* find, find_exact, find_lpm, left and right consume the view they are
\* called on and give back the view of the result (Ok or Err).
MutFind(i, p) ==
    /\ views' = Replace(i, <<TrieViewMut_find(table, views[i], p).loc>>)
    /\ UNCHANGED <<table, stored, kept>>

MutFindExact(i, p) ==
    /\ views' = Replace(i, <<TrieViewMut_find_exact(table, views[i], p).loc>>)
    /\ UNCHANGED <<table, stored, kept>>

MutFindLpm(i, p) ==
    /\ views' = Replace(i, <<TrieViewMut_find_lpm(table, views[i], p).loc>>)
    /\ UNCHANGED <<table, stored, kept>>

MutLeft(i) ==
    /\ views' = Replace(i, <<TrieViewMut_left(table, views[i]).loc>>)
    /\ UNCHANGED <<table, stored, kept>>

MutRight(i) ==
    /\ views' = Replace(i, <<TrieViewMut_right(table, views[i]).loc>>)
    /\ UNCHANGED <<table, stored, kept>>

MutSplit(i) ==
    /\ views' = Replace(i, SelectSeq(TrieViewMut_split(table, views[i]),
                                     LAMBDA v : v # NoView))
    /\ UNCHANGED <<table, stored, kept>>

MutRemove(i) ==
    /\ table' = TrieViewMut_remove(table, views[i])
    /\ stored' = IF views[i].kind = "Node"
                 THEN [stored EXCEPT ![Nd(table, views[i].idx).prefix] = None]
                 ELSE stored
    /\ kept' = (kept \/ table' # table)
    /\ UNCHANGED views

\* value_mut / prefix_value_mut: the value of the node of the view is
\* overwritten through the reference.
MutValueMut(i, v) ==
    LET n == TrieViewMut_value_mut(table, views[i]) IN
    /\ n # None
    /\ Markable(Nd(table, n).prefix, v)
    /\ table' = Write(table, n, v)
    /\ stored' = [stored EXCEPT ![Nd(table, n).prefix] = v]
    /\ UNCHANGED <<views, kept>>

\* iter_mut / values_mut / into_iter: the value of the k-th entry the
\* iterator yields is overwritten through the reference.
MutIterMut(i, k, v) ==
    LET s == TrieViewMut_iter_mut(table, views[i]) IN
    /\ k \in 1..Len(s)
    /\ Markable(Nd(table, s[k]).prefix, v)
    /\ table' = Write(table, s[k], v)
    /\ stored' = [stored EXCEPT ![Nd(table, s[k]).prefix] = v]
    /\ UNCHANGED <<views, kept>>

\* entry(p).or_insert(d)
OrInsert(p, d) ==
    /\ views = <<>>
    /\ stored[p] = None => Markable(p, d)
    /\ Len(table) + Grows(table, p) <= MaxNodes
    /\ table' = Entry_or_insert(table, p, d)
    /\ stored' = IF stored[p] = None THEN [stored EXCEPT ![p] = d] ELSE stored
    /\ UNCHANGED <<views, kept>>

\* entry(p).and_modify(f)
AndModify(p, f) ==
    /\ views = <<>>
    /\ stored[p] # None => Markable(p, f[stored[p]])
    /\ table' = Entry_and_modify(table, p, f)
    /\ stored' = IF stored[p] # None THEN [stored EXCEPT ![p] = f[stored[p]]] ELSE stored
    /\ UNCHANGED <<views, kept>>

\* Every view is dropped: the mutable borrow of the map ends.
Release ==
    /\ views # <<>>
    /\ views' = <<>>
    /\ UNCHANGED <<table, stored, kept>>

\* Inserts only.
NextIns ==
    \E p \in Prefixes, v \in Values : Insert(p, v)

SpecIns == Init /\ [][NextIns]_vars

\* The operations of the map.
Next ==
    \/ \E p \in Prefixes, v \in Values : Insert(p, v)
    \/ \E p \in Prefixes : Remove(p)
    \/ \E p \in Prefixes : RemoveKeepTree(p)

Spec == Init /\ [][Next]_vars

\* The operations of the map, those of its entries included.
NextEntry ==
    \/ \E p \in Prefixes, v \in Values : Insert(p, v)
    \/ \E p \in Prefixes : Remove(p)
    \/ \E p \in Prefixes : RemoveKeepTree(p)
    \/ \E p \in Prefixes, d \in Values : OrInsert(p, d)
    \/ \E p \in Prefixes, f \in [Values -> Values] : AndModify(p, f)

SpecEntry == Init /\ [][NextEntry]_vars

\* Inserts, and the mutable views of the trie.
NextView ==
    \/ \E p \in Prefixes, v \in Values : Insert(p, v)
    \/ ViewMut
    \/ \E i \in 1..Len(views), p \in Prefixes : MutFind(i, p)
    \/ \E i \in 1..Len(views), p \in Prefixes : MutFindExact(i, p)
    \/ \E i \in 1..Len(views), p \in Prefixes : MutFindLpm(i, p)
    \/ \E i \in 1..Len(views) : MutLeft(i)
    \/ \E i \in 1..Len(views) : MutRight(i)
    \/ \E i \in 1..Len(views) : MutSplit(i)
    \/ \E i \in 1..Len(views) : MutRemove(i)
    \/ \E i \in 1..Len(views), v \in Values : MutValueMut(i, v)
    \/ \E i \in 1..Len(views), k \in 1..MaxNodes, v \in Values : MutIterMut(i, k, v)
    \/ Release

SpecView == Init /\ [][NextView]_vars

\* The pairs a map is built from, and what they leave stored: for every
\* prefix the value of its last pair.
Pairs == Prefixes \X Values

Bulks == UNION {[1..n -> Pairs] : n \in 1..MaxBulk}

LastOf(s, p) ==
    LET K == {k \in 1..Len(s) : s[k][1] = p} IN
    IF K = {} THEN None ELSE s[CHOOSE k \in K : \A j \in K : j <= k][2]

\* No map has been constructed yet.
Unbuilt ==
    /\ table = TableDefault
    /\ stored = [p \in Prefixes |-> None]
    /\ views = <<>>

\* from_iter: a map is constructed from a sequence of pairs.
FromIter(s) ==
    /\ Unbuilt
    /\ Cardinality({p \in Prefixes : LastOf(s, p) = 2}) <= 1
    /\ Len(from_iter(s)) <= MaxNodes
    /\ table' = from_iter(s)
    /\ stored' = [p \in Prefixes |-> LastOf(s, p)]
    /\ UNCHANGED <<views, kept>>

\* Construction from a sequence of pairs, and inserts.
NextBulk ==
    \/ Unbuilt /\ \E s \in Bulks : FromIter(s)
    \/ \E p \in Prefixes, v \in Values : Insert(p, v)

SpecBulk == Init /\ [][NextBulk]_vars

\* Inserts and pruning removals only.
NextInsRem ==
    \/ \E p \in Prefixes, v \in Values : Insert(p, v)
    \/ \E p \in Prefixes : Remove(p)

SpecInsRem == Init /\ [][NextInsRem]_vars

\* Every operation that changes the trie: the three of the map, and remove
\* on a mutable view, which find has moved to a node.
NextOps ==
    \/ \E p \in Prefixes, v \in Values : Insert(p, v)
    \/ \E p \in Prefixes : Remove(p)
    \/ \E p \in Prefixes : RemoveKeepTree(p)
    \/ ViewMut
    \/ \E i \in 1..Len(views), p \in Prefixes : MutFind(i, p)
    \/ \E i \in 1..Len(views) : MutRemove(i)
    \/ Release

SpecOps == Init /\ [][NextOps]_vars

----------------------------------------------------------------------------
(* What the calls made so far left in the map, and what a traversal        *)
(* restricted to a set of keys has to yield.                                *)

StoredKeys == {p \in Prefixes : stored[p] # None}

RECURSIVE Sorted(_)
Sorted(S) ==
    IF S = {} THEN <<>>
    ELSE LET m == CHOOSE x \in S : \A y \in S \ {x} : Less(x, y) IN
         <<m>> \o Sorted(S \ {m})

EntriesOf(S) ==
    LET ks == Sorted(S) IN [i \in 1..Len(ks) |-> <<ks[i], stored[ks[i]]>>]

\* The indices of the subtree rooted at the node idx.
RECURSIVE Subtree(_, _)
Subtree(t, idx) ==
    IF idx = None THEN {}
    ELSE {idx} \cup Subtree(t, Nd(t, idx).left) \cup Subtree(t, Nd(t, idx).right)

NumChildren(n) ==
    (IF n.left # None THEN 1 ELSE 0) + (IF n.right # None THEN 1 ELSE 0)

HasNode(t, p) == \E i \in Subtree(t, 0) : Nd(t, i).prefix = p

----------------------------------------------------------------------------
\* C1 (Exactness): after any sequence of inserts, get(p) and find_exact(p)
\* from the root view give the value most recently inserted for exactly p,
\* and nothing for a prefix never inserted, a value-less branching node
\* included.
C1_Exactness ==
    \A p \in Prefixes :
        /\ get(table, p) = stored[p]
        /\ LET f == TrieView_find_exact(table, view, p) IN
           IF stored[p] = None THEN f = NoView
           ELSE /\ f.kind = "Node"
                /\ TrieView_prefix(table, f) = p
                /\ TrieView_value(table, f) = stored[p]

\* A branching node without a value is looked up and gives nothing, next
\* to a stored key holding the marked value.
C1_Witness ==
    /\ \E i \in Subtree(table, 0) \ {0} :
          /\ Nd(table, i).value = None
          /\ get(table, Nd(table, i).prefix) = None
    /\ \E p \in Prefixes : stored[p] = 2 /\ get(table, p) = 2

\* C2 (Order invariant, I5): after any sequence of inserts, iter() yields
\* exactly the stored entries, each prefix strictly before the next one in
\* lexicographic order (so no key is repeated).
C2_IterOrder ==
    LET s == iter(table) IN
    /\ \A i \in 1..(Len(s) - 1) : Less(s[i][1], s[i + 1][1])
    /\ {s[i][1] : i \in 1..Len(s)} = StoredKeys
    /\ \A i \in 1..Len(s) : s[i][2] = stored[s[i][1]]

\* Three stored keys, one containing another and two of them on the two
\* sides of a node.
C2_Witness ==
    /\ Len(iter(table)) >= 3
    /\ \E i \in Subtree(table, 0) : NumChildren(Nd(table, i)) = 2
    /\ \E p, q \in StoredKeys : p # q /\ contains(p, q)

\* The stored prefixes containing q, and the most specific of them.
Covering(q) == {k \in StoredKeys : contains(k, q)}

MostSpecific(S) == CHOOSE k \in S : \A k2 \in S : Len(k2) <= Len(k)

\* C3 (LPM correctness on the whole trie): after any inserts and removals,
\* find_lpm(q) from the root view is at the most specific stored prefix
\* containing q, and gives nothing if no stored prefix contains q.
C3_Lpm ==
    \A q \in Prefixes :
        LET f == TrieView_find_lpm(table, view, q) IN
        IF Covering(q) = {} THEN f = NoView
        ELSE /\ f.kind = "Node"
             /\ TrieView_prefix(table, f) = MostSpecific(Covering(q))
             /\ TrieView_value(table, f) = stored[MostSpecific(Covering(q))]

\* The node of a removed prefix is still in the tree (without a value and
\* with at most one child), and find_lpm of that prefix gives a stored
\* ancestor.
C3_Witness ==
    \E i \in Subtree(table, 0) \ {0} :
        /\ Nd(table, i).value = None
        /\ NumChildren(Nd(table, i)) <= 1
        /\ TrieView_find_lpm(table, view, Nd(table, i).prefix) # NoView

\* C4 (Children completeness): children(p) yields exactly the stored
\* entries with a key contained in p, in ascending order, for every p.
C4_Children ==
    \A p \in Prefixes :
        children(table, p) = EntriesOf({k \in StoredKeys : contains(p, k)})

\* children of a prefix without a node that contains a stored key, and of
\* a stored prefix that yields itself and a key below it.
C4_Witness ==
    /\ \E p \in Prefixes : ~HasNode(table, p) /\ children(table, p) # <<>>
    /\ \E p \in StoredKeys : p # zero /\ Len(children(table, p)) >= 2

\* C5 (Cover completeness): cover(p) yields exactly the stored entries with
\* a key containing p, the least specific first, for every p.
C5_Cover ==
    \A p \in Prefixes :
        cover(table, p) = EntriesOf({k \in StoredKeys : contains(k, p)})

\* A cover of three entries: the root entry, an entry in between and the
\* queried prefix itself.
C5_Witness ==
    \E p \in StoredKeys :
        /\ stored[zero] # None
        /\ Len(cover(table, p)) = 3

\* C8 (view_at on the whole trie): when view_at(p) or view_mut_at(p) gives
\* a view, iterating it yields exactly the stored entries with a key
\* contained in p, in ascending order; when it gives nothing, no stored key
\* is contained in p.
C8_ViewAt ==
    \A p \in Prefixes :
        LET want == EntriesOf({k \in StoredKeys : contains(p, k)})
            v == view_at(table, p)
            vm == view_mut_at(table, p) IN
        /\ IF v = NoView THEN want = <<>> ELSE TrieView_iter(table, v) = want
        /\ IF vm = NoView THEN want = <<>> ELSE TrieView_iter(table, vm) = want

\* view_at gives a virtual view with entries below it, and for another
\* prefix gives nothing.
C8_Witness ==
    /\ \E p \in Prefixes :
          /\ view_at(table, p).kind = "Virtual"
          /\ view_mut_at(table, p).kind = "Virtual"
          /\ TrieView_iter(table, view_at(table, p)) # <<>>
    /\ \E p \in Prefixes : view_at(table, p) = NoView

----------------------------------------------------------------------------
(* Mutable views                                                           *)

\* The nodes a view gives access to: the subtree below its index.
Footprint(t, loc) == Subtree(t, ViewLoc_idx(loc))

\* The keys a view yields.
ViewKeys(t, loc) ==
    LET s == TrieView_iter(t, loc) IN {s[i][1] : i \in 1..Len(s)}

Exclusive ==
    \A i, j \in 1..Len(views) :
        i # j => Footprint(table, views[i]) \cap Footprint(table, views[j]) = {}

\* C6 (Mutable-view exclusivity): from the root mutable view, after any
\* find, find_exact, find_lpm, left, right and split calls, no two live
\* views overlap, and every view a call produces lies inside the subtree of
\* a view that was live before the call.
C6_Exclusivity ==
    /\ []Exclusive
    /\ [][views # <<>> =>
            \A j \in 1..Len(views') : \E i \in 1..Len(views) :
                Footprint(table', views'[j]) \subseteq Footprint(table, views[i])]_vars

\* Two live views after a split, one of them moved further down than the
\* children of the root.
C6_Witness ==
    /\ Len(views) = 2
    /\ \E i \in 1..2 :
          /\ views[i].idx # Nd(table, 0).left
          /\ views[i].idx # Nd(table, 0).right
          /\ views[i].idx # 0

\* The key of the node of the view itself, if it holds a value.
OwnKey(t, loc) ==
    IF TrieView_value(t, loc) # None THEN {TrieView_prefix(t, loc)} ELSE {}

BothChildren(t, loc) ==
    /\ loc.kind = "Node"
    /\ Nd(t, loc.idx).left # None
    /\ Nd(t, loc.idx).right # None

\* C7 (Split disjointness): a split of a view with both children replaces
\* it by two views whose key sets are disjoint and whose union is the key
\* set of the view without the key of the view itself.
C7_Split ==
    [][Len(views') = Len(views) + 1 /\ views # <<>> =>
        \E i \in 1..Len(views) :
            /\ BothChildren(table, views[i])
            /\ Len(views') = Len(views) + 1
            /\ \A k \in 1..(i - 1) : views'[k] = views[k]
            /\ \A k \in (i + 1)..Len(views) : views'[k + 1] = views[k]
            /\ LET L == ViewKeys(table, views'[i])
                   R == ViewKeys(table, views'[i + 1]) IN
               /\ L \cap R = {}
               /\ L \cup R = ViewKeys(table, views[i]) \ OwnKey(table, views[i])]_vars

\* The two views of a split of a node holding a value, each with a key.
C7_Witness ==
    \E n \in Subtree(table, 0) :
        /\ Nd(table, n).value # None
        /\ BothChildren(table, ViewNode(n))
        /\ views = <<ViewNode(Nd(table, n).left), ViewNode(Nd(table, n).right)>>
        /\ ViewKeys(table, views[1]) # {}
        /\ ViewKeys(table, views[2]) # {}

\* The entries of a view with a key contained in p.
ViewEntriesIn(t, loc, p) ==
    SelectSeq(TrieView_iter(t, loc), LAMBDA e : contains(p, e[1]))

\* The prefixes of the nodes of a view: the nodes below its index, and
\* the prefix of the view itself.
ViewNodePrefixes(t, loc) ==
    {Nd(t, i).prefix : i \in Footprint(t, loc)} \cup {TrieView_prefix(t, loc)}

\* C9 (find searches only the current view): for every live view V and
\* every prefix p, V.find(p) gives a view yielding exactly the entries of V
\* with a key contained in p, and gives None (Err(self) on the mutable
\* view) when V has no node contained in p.
C9_FindInView ==
    \A i \in 1..Len(views) : \A p \in Prefixes :
        LET V == views[i]
            f == TrieView_find(table, V, p)
            fm == TrieViewMut_find(table, V, p) IN
        IF \A q \in ViewNodePrefixes(table, V) : ~contains(p, q)
        THEN f = NoView /\ ~fm.ok
        ELSE /\ f # NoView
             /\ TrieView_iter(table, f) = ViewEntriesIn(table, V, p)
             /\ fm.ok
             /\ TrieView_iter(table, fm.loc) = ViewEntriesIn(table, V, p)

\* C10 (find_lpm searches only the given view): for every live view V and
\* every prefix q, V.find_lpm(q) gives a view at the most specific
\* value-bearing node of V whose prefix contains q, and gives None
\* (Err(self) on the mutable view) when V holds no stored prefix containing q.
C10_FindLpmInView ==
    \A i \in 1..Len(views) : \A q \in Prefixes :
        LET V == views[i]
            f == TrieView_find_lpm(table, V, q)
            fm == TrieViewMut_find_lpm(table, V, q)
            cands == {k \in ViewKeys(table, V) : contains(k, q)} IN
        IF cands = {}
        THEN f = NoView /\ ~fm.ok
        ELSE /\ f.kind = "Node"
             /\ f.idx \in Footprint(table, V)
             /\ TrieView_value(table, f) # None
             /\ TrieView_prefix(table, f) = MostSpecific(cands)
             /\ fm.ok /\ fm.loc = f

\* The results of the five navigation calls on the mutable view loc.
Navigations(t, loc) ==
    {TrieViewMut_find(t, loc, p) : p \in Prefixes}
        \cup {TrieViewMut_find_exact(t, loc, p) : p \in Prefixes}
        \cup {TrieViewMut_find_lpm(t, loc, p) : p \in Prefixes}
        \cup {TrieViewMut_left(t, loc), TrieViewMut_right(t, loc)}

FailureHandsBack ==
    \A i \in 1..Len(views) : \A r \in Navigations(table, views[i]) :
        ~r.ok => r.loc = views[i]

\* C11 (failure hands the view back): a find, find_exact, find_lpm, left or
\* right on a live mutable view that does not succeed gives Err with a view
\* at the location of the view it was called on (the same node, or the same
\* virtual prefix and child), and no step that changes the live views
\* changes the arena.
C11_FailureHandsBack ==
    /\ []FailureHandsBack
    /\ [][views' # views => table' = table]_vars

\* A live virtual view on which left fails, and on which a find, a
\* find_exact and a find_lpm fail.
C11_Witness ==
    \E i \in 1..Len(views) :
        /\ views[i].kind = "Virtual"
        /\ ~TrieViewMut_left(table, views[i]).ok
        /\ \E p \in Prefixes : ~TrieViewMut_find(table, views[i], p).ok
        /\ \E p \in Prefixes : ~TrieViewMut_find_exact(table, views[i], p).ok
        /\ \E p \in Prefixes : ~TrieViewMut_find_lpm(table, views[i], p).ok

----------------------------------------------------------------------------
(* The structural invariants of the arena                                  *)

Indices(t) == 0..(Len(t) - 1)

ChildrenOf(t, i) == {Nd(t, i).left, Nd(t, i).right} \ {None}

\* The indices reached from the set S in at most n links.
RECURSIVE ReachN(_, _, _)
ReachN(t, S, n) ==
    IF n = 0 THEN S
    ELSE ReachN(t, S \cup UNION {ChildrenOf(t, i) : i \in S}, n - 1)

\* The nodes of the tree: what the links reach from the root.
Reachable(t) == ReachN(t, {0}, Len(t))

\* What the links reach from the children of the node i.
Descendants(t, i) == ReachN(t, ChildrenOf(t, i), Len(t))

\* A node without a value whose prefix was stored and removed.
RemovedNode(t, i) ==
    /\ Nd(t, i).value = None
    /\ NumChildren(Nd(t, i)) <= 1

\* C12 (I1, containment nesting): after every operation, the prefix of
\* every node of the tree contains the prefix of each of its children and
\* differs from it.
C12_I1 ==
    \A n \in Reachable(table) : \A c \in ChildrenOf(table, n) :
        /\ contains(Nd(table, n).prefix, Nd(table, c).prefix)
        /\ Nd(table, c).prefix # Nd(table, n).prefix

\* A node two links below the root, and a node left without a value and
\* with at most one child by a removal that kept the tree.
C12_Witness ==
    /\ \E a, b \in Reachable(table) \ {0} : b \in ChildrenOf(table, a)
    /\ \E i \in Reachable(table) \ {0} : RemovedNode(table, i)

\* The nodes of the subtree below the link c (none when there is no link).
SubtreeAt(t, c) == IF c = None THEN {} ELSE ReachN(t, {c}, Len(t))

\* C13 (I2, branch separation): after every operation, for every node n of
\* the tree, to_right(n.prefix, .) is false for every prefix in the subtree
\* of its left child and true for every prefix in the subtree of its right
\* child, so the two subtrees share no prefix.
C13_I2 ==
    \A n \in Reachable(table) :
        LET L == {Nd(table, i).prefix : i \in SubtreeAt(table, Nd(table, n).left)}
            R == {Nd(table, i).prefix : i \in SubtreeAt(table, Nd(table, n).right)} IN
        /\ \A q \in L : ~to_right(Nd(table, n).prefix, q)
        /\ \A q \in R : to_right(Nd(table, n).prefix, q)
        /\ L \cap R = {}

\* A node with both children, and a node with a child that has a child on
\* its right.
C13_Witness ==
    /\ \E n \in Reachable(table) : NumChildren(Nd(table, n)) = 2
    /\ \E n \in Reachable(table) : \E c \in ChildrenOf(table, n) :
          Nd(table, c).right # None

\* No node of the tree but the root is without a value and with fewer than
\* two children.
Maximal(t) ==
    \A n \in Reachable(t) \ {0} :
        Nd(t, n).value = None => NumChildren(Nd(t, n)) = 2

\* C14 as claimed (I3, maximality, after every operation): after insert,
\* remove, remove_keep_tree and remove through a mutable view, no node of
\* the tree but the root is without a value and with fewer than two
\* children.
C14_I3_AllOps == Maximal(table)

\* C14 as amended (I3 after insert and remove): as long as no
\* remove_keep_tree and no remove through a mutable view has taken a value,
\* after every insert and remove no node of the tree but the root is
\* without a value and with fewer than two children.
C14_I3 == ~kept => Maximal(table)

\* No value was taken with the tree kept, removals have pruned two nodes
\* off the tree (a leaf and the branching node above it, or two leaves),
\* and a key is still stored.
C14_Witness ==
    /\ ~kept
    /\ Cardinality(Indices(table) \ Reachable(table)) >= 2
    /\ StoredKeys # {}

\* The (node, side) pairs of the tree whose link is the index c.
ParentLinks(t, c) ==
    {ns \in Reachable(t) \X BOOLEAN : get_child(t, ns[1], ns[2]) = c}

\* C15 (I4, uniqueness): after every operation the links form a tree rooted
\* at index 0: index 0 is the child of no node, every other index is the
\* child of at most one (node, side) pair of the tree, every node of the
\* tree but the root of exactly one, and following the links from a node
\* never comes back to it.
C15_I4 ==
    /\ ParentLinks(table, 0) = {}
    /\ \A c \in Indices(table) \ {0} : Cardinality(ParentLinks(table, c)) <= 1
    /\ \A c \in Reachable(table) \ {0} : Cardinality(ParentLinks(table, c)) = 1
    /\ \A i \in Indices(table) : i \notin Descendants(table, i)

\* A full arena with a node of two children, a node two links below the
\* root, or a node that a removal took off the tree.
C15_Witness ==
    /\ Len(table) = MaxNodes
    /\ \E n \in Reachable(table) : NumChildren(Nd(table, n)) = 2
    /\ \/ \E n \in Reachable(table) \ {0} : ChildrenOf(table, n) # {}
       \/ Indices(table) # Reachable(table)

\* The arena of a new trie, one that has grown no node and stores no key:
\* one node, with the prefix zero, no value and no children.
NewArena ==
    (Len(table) <= 1 /\ StoredKeys = {}) =>
        table = <<[prefix |-> <<>>, value |-> None, left |-> None, right |-> None]>>

\* Index 0 holds the prefix zero and is the child of no node, and the node
\* of every stored key is reached from it.
RootSentinel ==
    /\ Len(table) >= 1
    /\ Nd(table, 0).prefix = <<>>
    /\ \A i \in Indices(table) : 0 \notin ChildrenOf(table, i)
    /\ \A p \in StoredKeys : \E i \in Reachable(table) :
          Nd(table, i).prefix = p /\ Nd(table, i).value = stored[p]
    /\ view = ViewNode(0) /\ view_mut = ViewNode(0)

\* C16 (root sentinel): the arena of a new trie holds exactly one node, at
\* index 0, with the prefix zero, no value and no children; and after any
\* sequence of operations index 0 holds the prefix zero and is the root the
\* whole-trie traversals start from.
C16_RootSentinel == NewArena /\ RootSentinel

\* The root holds a value and has both children, after a removal took a
\* node off the tree.
C16_Witness ==
    /\ stored[zero] # None
    /\ NumChildren(Nd(table, 0)) = 2
    /\ Indices(table) # Reachable(table)

----------------------------------------------------------------------------
(* Insertion: what it changes                                              *)

\* The index of the node of the tree with the prefix p.
NodeOf(t, p) == CHOOSE i \in Reachable(t) : Nd(t, i).prefix = p

HasTreeNode(t, p) == \E i \in Reachable(t) : Nd(t, i).prefix = p

\* C17 (insert at an existing node): when the tree has a node with the
\* prefix p, insert(p, v) sets the value of that node and nothing else: the
\* arena keeps its length, every node its prefix and its links, every other
\* node its value; and insert returns the value p had, nothing if its node
\* was a branching node without a value.
C17_InsertReached ==
    \A p \in Prefixes : \A v \in Values :
        HasTreeNode(table, p) =>
            LET t2 == Entry_insert(table, p, v)
                n == NodeOf(table, p) IN
            /\ Len(t2) = Len(table)
            /\ \A i \in Indices(table) :
                  /\ Nd(t2, i).prefix = Nd(table, i).prefix
                  /\ Nd(t2, i).left = Nd(table, i).left
                  /\ Nd(t2, i).right = Nd(table, i).right
                  /\ Nd(t2, i).value = IF i = n THEN v ELSE Nd(table, i).value
            /\ Entry_insert_returns(table, p, v) = stored[p]

\* The tree holds a stored key with the marked value and, away from the
\* root, a node without a value.
C17_Witness ==
    /\ \E p \in StoredKeys : stored[p] = 2 /\ HasTreeNode(table, p)
    /\ \E p \in Prefixes \ {zero} : stored[p] = None /\ HasTreeNode(table, p)

\* The prefixes of the nodes of the tree.
TreePrefixes(t) == {Nd(t, i).prefix : i \in Reachable(t)}

\* C18 (append-only allocation): an insert grows the arena by 0 nodes when
\* the prefix has a node (Reached), by 1 node for NewLeaf and NewChild and
\* by 2 nodes for NewBranch; the new nodes are at the end of the arena, the
\* node of the inserted prefix among them; and every index of the arena
\* before the insert keeps its prefix, and its value unless it is the node
\* reached.
C18_AppendOnly ==
    \A p \in Prefixes : \A v \in Values :
        LET t2 == Entry_insert(table, p, v)
            k == entry(table, p).direction.kind
            grown == Len(t2) - Len(table) IN
        /\ grown = CASE k = "Reached" -> 0
                      [] k \in {"NewLeaf", "NewChild"} -> 1
                      [] k = "NewBranch" -> 2
        /\ (k = "Reached") = HasTreeNode(table, p)
        /\ \A i \in Indices(table) :
              /\ Nd(t2, i).prefix = Nd(table, i).prefix
              /\ k # "Reached" => Nd(t2, i).value = Nd(table, i).value
        /\ k # "Reached" =>
              /\ Nd(t2, Len(t2) - 1) = [prefix |-> p, value |-> v,
                                        left |-> Nd(t2, Len(t2) - 1).left,
                                        right |-> Nd(t2, Len(t2) - 1).right]
              /\ Len(t2) - 1 \in Reachable(t2)
        /\ k = "NewBranch" =>
              /\ Nd(t2, Len(table)).value = None
              /\ Len(table) \in Reachable(t2)
              /\ ChildrenOf(t2, Len(table)) \cap Indices(table) # {}
              /\ Len(t2) - 1 \in ChildrenOf(t2, Len(table))
        /\ TreePrefixes(table) \subseteq TreePrefixes(t2)

\* From the same arena one insert is a NewLeaf, one a NewChild and one a
\* NewBranch.
C18_Witness ==
    \A k \in {"NewLeaf", "NewChild", "NewBranch"} :
        \E p \in Prefixes : entry(table, p).direction.kind = k

----------------------------------------------------------------------------
(* The shape of the tree                                                   *)

\* A tree without its indices: for every node of the tree its prefix, its
\* value and the prefixes of its left and right child (as sets of at most
\* one prefix).
Shape(t) ==
    {[prefix |-> Nd(t, i).prefix,
      value |-> Nd(t, i).value,
      left |-> {Nd(t, c).prefix : c \in {Nd(t, i).left} \ {None}},
      right |-> {Nd(t, c).prefix : c \in {Nd(t, i).right} \ {None}}] :
        i \in Reachable(t)}

\* The prefixes a trie of the stored keys has a node for: the root, the
\* keys, and the longest common prefix of any two keys.
CanonNodes ==
    {zero} \cup StoredKeys
        \cup {longest_common_prefix(a, b) : a, b \in StoredKeys}

\* The least specific of the nodes N properly contained in x on one side.
CanonChild(N, x, right) ==
    LET below == {y \in N : y # x /\ contains(x, y) /\ to_right(x, y) = right} IN
    {y \in below : \A z \in below : Len(y) <= Len(z)}

\* The shape the set of stored entries alone determines.
CanonShape ==
    LET N == CanonNodes IN
    {[prefix |-> x, value |-> stored[x],
      left |-> CanonChild(N, x, FALSE), right |-> CanonChild(N, x, TRUE)] :
        x \in N}

\* C19 (shape canonicity): after any sequence of inserts into an empty
\* trie, and after building a map from any sequence of pairs (from_iter),
\* the tree is, up to the numbering of the arena, the one the set of stored
\* entries determines (the same node prefixes, the same children on the
\* same sides, the same values), whatever the order of the inserts.
C19_ShapeCanonicity == Shape(table) = CanonShape

\* Three keys inserted in an order that is neither ascending nor
\* descending, with a branching node without a value.
C19_Witness ==
    /\ Cardinality(StoredKeys) >= 3
    /\ \E n \in Reachable(table) \ {0} : Nd(table, n).value = None
    /\ LET K == {i \in Reachable(table) : Nd(table, i).value # None} IN
       /\ \E i, j \in K : i < j /\ Less(Nd(table, j).prefix, Nd(table, i).prefix)
       /\ \E i, j \in K : i < j /\ Less(Nd(table, i).prefix, Nd(table, j).prefix)

----------------------------------------------------------------------------
(* Removal that keeps the tree                                             *)

\* The keys of a sequence of entries, in its order.
KeysOf(s) == [i \in 1..Len(s) |-> s[i][1]]

\* The entries of the arena t are the stored ones, but for the key p which
\* holds v.
RoundTrip(t, p, v) ==
    LET s == iter(t) IN
    /\ KeysOf(s) = KeysOf(iter(table))
    /\ \A i \in 1..Len(s) :
          s[i][2] = IF s[i][1] = p THEN v ELSE stored[s[i][1]]

\* C20 (remove-keep-tree round trip): after remove_keep_tree(p), and after
\* remove() on the mutable view that find has moved to the node of a stored
\* key p, get(p) gives nothing; and inserting p again with a value makes
\* iter() yield the keys it yielded before the removal, in the same order,
\* every key but p with the value it had and p with the new one.
C20_KeepTreeRoundTrip ==
    /\ \A p \in Prefixes : get(remove_keep_tree(table, p), p) = None
    /\ \A p \in StoredKeys : \A v \in Values :
          LET at == TrieViewMut_find(table, view_mut, p)
              t1 == remove_keep_tree(table, p)
              t2 == TrieViewMut_remove(table, at.loc) IN
          /\ at.ok /\ at.loc.kind = "Node"
          /\ get(t2, p) = None
          /\ \A q \in Prefixes \ {p} : get(t1, q) = stored[q] /\ get(t2, q) = stored[q]
          /\ RoundTrip(Entry_insert(t1, p, v), p, v)
          /\ RoundTrip(Entry_insert(t2, p, v), p, v)

\* A stored key with a stored key on each side below it and one above it.
C20_Witness ==
    \E p \in StoredKeys \ {zero} :
        /\ stored[zero] # None
        /\ NumChildren(Nd(table, NodeOf(table, p))) = 2
        /\ Len(children(table, p)) = 3

----------------------------------------------------------------------------
(* Removal with pruning                                                    *)

\* I1, I2 and I4 on an arena t.
I1(t) ==
    \A n \in Reachable(t) : \A c \in ChildrenOf(t, n) :
        /\ contains(Nd(t, n).prefix, Nd(t, c).prefix)
        /\ Nd(t, c).prefix # Nd(t, n).prefix

I2(t) ==
    \A n \in Reachable(t) :
        /\ \A i \in SubtreeAt(t, Nd(t, n).left) :
              ~to_right(Nd(t, n).prefix, Nd(t, i).prefix)
        /\ \A i \in SubtreeAt(t, Nd(t, n).right) :
              to_right(Nd(t, n).prefix, Nd(t, i).prefix)

I4(t) ==
    /\ ParentLinks(t, 0) = {}
    /\ \A c \in Indices(t) \ {0} : Cardinality(ParentLinks(t, c)) <= 1
    /\ \A c \in Reachable(t) \ {0} : Cardinality(ParentLinks(t, c)) = 1
    /\ \A i \in Indices(t) : i \notin Descendants(t, i)

\* C21 (remove with pruning): for every stored prefix p, remove(p) returns
\* the value of p; after it get(p) gives nothing, every other stored key has
\* its value, iter() yields the entries it yielded before without p, and
\* I1, I2 and I4 hold on the tree the splice leaves.
C21_Remove ==
    \A p \in StoredKeys :
        LET t2 == remove(table, p) IN
        /\ remove_returns(table, p) = stored[p]
        /\ get(t2, p) = None
        /\ \A q \in Prefixes \ {p} : get(t2, q) = stored[q]
        /\ iter(t2) = EntriesOf(StoredKeys \ {p})
        /\ I1(t2) /\ I2(t2) /\ I4(t2)

\* The removal of a stored leaf takes two nodes off the tree: the leaf and
\* the branching node above it, whose other child is linked to the root.
C21_Witness ==
    \E p \in StoredKeys :
        /\ Cardinality(Reachable(remove(table, p))) = Cardinality(Reachable(table)) - 2
        /\ StoredKeys \ {p} # {}

----------------------------------------------------------------------------
\* The structure of the arena: the prefix and the links of every node.
Structure(t) ==
    [i \in 1..Len(t) |-> [prefix |-> t[i].prefix, left |-> t[i].left, right |-> t[i].right]]

\* C22 (views never change structure): while a view is live, no step (find,
\* find_exact, find_lpm, left, right, split, a write through value_mut or
\* iter_mut, remove, the release of the views) changes the length of the
\* arena or the prefix or a link of any node; and remove on a live mutable
\* view returns the value its own node held and changes nothing but the
\* value of that node, which it leaves empty.
C22_ViewsKeepStructure ==
    /\ [][views # <<>> => Structure(table') = Structure(table)]_vars
    /\ [](\A i \in 1..Len(views) :
            LET t2 == TrieViewMut_remove(table, views[i]) IN
            /\ Structure(t2) = Structure(table)
            /\ TrieViewMut_remove_returns(table, views[i]) = TrieView_value(table, views[i])
            /\ \A n \in Indices(table) :
                  IF views[i].kind = "Node" /\ n = views[i].idx
                  THEN Nd(t2, n).value = None
                  ELSE Nd(t2, n) = Nd(table, n))

\* A live view at a node of the tree with a child whose value was taken by
\* remove, other values being stored.
C22_Witness ==
    /\ kept
    /\ StoredKeys # {}
    /\ \E i \in 1..Len(views) :
          /\ views[i].kind = "Node"
          /\ views[i].idx # 0
          /\ Nd(table, views[i].idx).value = None
          /\ NumChildren(Nd(table, views[i].idx)) = 1

----------------------------------------------------------------------------
\* The views at a virtual location: the live mutable ones, and the ones
\* view_at and view_mut_at give.
VirtualViews ==
    {v \in {views[i] : i \in 1..Len(views)}
           \cup {view_at(table, p) : p \in Prefixes}
           \cup {view_mut_at(table, p) : p \in Prefixes} : v.kind = "Virtual"}

\* C23 (virtual views hold no value): for every view at a virtual location,
\* value and prefix_value (read-only and mutable) give nothing, value_mut
\* and prefix_value_mut give no reference, and remove returns nothing and
\* leaves the arena as it is.
C23_VirtualNoValue ==
    \A V \in VirtualViews :
        /\ TrieView_value(table, V) = None
        /\ TrieView_prefix_value(table, V) = NoItem
        /\ TrieViewMut_value(table, V) = None
        /\ TrieViewMut_prefix_value(table, V) = NoItem
        /\ TrieViewMut_value_mut(table, V) = None
        /\ TrieViewMut_remove_returns(table, V) = None
        /\ TrieViewMut_remove(table, V) = table

\* A live view at a virtual location above a node that holds a value.
C23_Witness ==
    \E i \in 1..Len(views) :
        /\ views[i].kind = "Virtual"
        /\ Nd(table, views[i].idx).value # None
        /\ Nd(table, views[i].idx).prefix # views[i].prefix

----------------------------------------------------------------------------
\* C24 (virtual branching): a view at Virtual(p, idx) has a child on exactly
\* one side, the side to_right(p, prefix of idx): left or right on that side
\* gives the view at the node idx, on the other side nothing (the mutable
\* view handing itself back), and has_left, has_right and split agree, for
\* the read-only and for the mutable view.
C24_VirtualBranching ==
    \A V \in VirtualViews :
        LET right == to_right(V.prefix, Nd(table, V.idx).prefix)
            child == ViewNode(V.idx)
            l == TrieView_left(table, V)
            r == TrieView_right(table, V)
            ml == TrieViewMut_left(table, V)
            mr == TrieViewMut_right(table, V) IN
        /\ TrieViewMut_has_left(table, V) = ~right
        /\ TrieViewMut_has_right(table, V) = right
        /\ l = (IF right THEN NoView ELSE child)
        /\ r = (IF right THEN child ELSE NoView)
        /\ ml = (IF right THEN Err(V) ELSE Ok(child))
        /\ mr = (IF right THEN Ok(child) ELSE Err(V))
        /\ TrieViewMut_split(table, V) = <<l, r>>
        /\ TrieView_iter(table, child) = TrieView_iter(table, V)

\* A live view at a virtual location with its child on the right, and a
\* prefix where view_at gives a virtual location with its child on the left.
C24_Witness ==
    /\ \E i \in 1..Len(views) :
          /\ views[i].kind = "Virtual"
          /\ to_right(views[i].prefix, Nd(table, views[i].idx).prefix)
    /\ \E p \in Prefixes :
          /\ view_at(table, p).kind = "Virtual"
          /\ ~to_right(p, Nd(table, view_at(table, p).idx).prefix)

----------------------------------------------------------------------------
\* C25 (left view after remove): if view_mut().left() succeeds, then after
\* remove on the view it gives, the view yields exactly the stored entries
\* with a key contained in the one-bit left prefix and different from it, in
\* ascending order; if left() fails, no stored key is contained in that
\* prefix and different from it.
C25_LeftViewRemove ==
    LET start == Append(zero, 0)
        want == EntriesOf({k \in StoredKeys : contains(start, k) /\ k # start})
        r == TrieViewMut_left(table, view_mut) IN
    IF r.ok
    THEN TrieView_iter(TrieViewMut_remove(table, r.loc), r.loc) = want
    ELSE want = <<>>

----------------------------------------------------------------------------
\* The nodes whose value the mutable accessors of a view give a mutable
\* reference to: value_mut and prefix_value_mut, iter_mut, values_mut and
\* into_iter.
MutTargets(t, loc) ==
    LET s == TrieViewMut_iter_mut(t, loc) IN
    ({TrieViewMut_value_mut(t, loc)} \ {None}) \cup {s[k] : k \in 1..Len(s)}

\* The stored keys outside a view.
Outside(t, loc) == StoredKeys \ {Nd(t, n).prefix : n \in Footprint(t, loc)}

\* C26 (mutation through a mutable view is confined to its subtree): for
\* every live mutable view, one at a virtual location included, value_mut,
\* prefix_value_mut, iter_mut, values_mut and into_iter give references
\* into the subtree of the view only, a write through any of them and
\* remove leave every node outside the subtree as it is and every stored
\* entry outside with its value; and no step taken while views are live
\* changes a value outside the subtrees of the live views.
C26_MutationConfined ==
    /\ [](\A i \in 1..Len(views) :
            LET V == views[i]
                after == {TrieViewMut_remove(table, V)}
                            \cup {Write(table, n, v) : n \in MutTargets(table, V), v \in Values} IN
            /\ MutTargets(table, V) \subseteq Footprint(table, V)
            /\ \A t2 \in after :
                  /\ \A n \in Indices(table) \ Footprint(table, V) : Nd(t2, n) = Nd(table, n)
                  /\ \A q \in Outside(table, V) : get(t2, q) = stored[q])
    /\ [][views # <<>> =>
            \A n \in Indices(table) :
                Nd(table', n).value # Nd(table, n).value =>
                    \E i \in 1..Len(views) : n \in Footprint(table, views[i])]_vars

\* A value was taken through a view; a live view below the root and a live
\* view at a virtual location both hold entries, and an entry is stored
\* outside the live views.
C26_Witness ==
    /\ kept
    /\ \E i, j \in 1..Len(views) :
          /\ views[i].kind = "Node"
          /\ views[i].idx # 0
          /\ views[j].kind = "Virtual"
          /\ ViewKeys(table, views[i]) # {}
          /\ ViewKeys(table, views[j]) # {}
    /\ \E q \in StoredKeys : \A i \in 1..Len(views) : q \in Outside(table, views[i])

----------------------------------------------------------------------------
\* Table::index, index_mut and get_mut: the node at idx, or a panic when
\* idx is not below the length of the arena.
Table_index(t, idx) ==
    IF idx >= Len(t) THEN [panic |-> TRUE] ELSE [panic |-> FALSE, node |-> t[idx + 1]]

Table_get_mut(t, idx) ==
    IF idx >= Len(t) THEN [panic |-> TRUE] ELSE [panic |-> FALSE, node |-> t[idx + 1]]

\* The links of the arena, of every node in it.
Links(t) == UNION {{t[k].left, t[k].right} : k \in 1..Len(t)} \ {None}

\* The indices that are on the stack of an iterator at some time, from the
\* stack nodes on (Iter::next, IterMut::next and IntoIter::next pop an index
\* and push the children of its node); an index outside the arena is not
\* followed.
RECURSIVE StackIndices(_, _, _)
StackIndices(t, nodes, fuel) ==
    IF nodes = <<>> \/ fuel = 0 THEN {nodes[k] : k \in 1..Len(nodes)}
    ELSE
        LET cur == nodes[Len(nodes)]
            popped == SubSeq(nodes, 1, Len(nodes) - 1)
            node == Table_index(t, cur).node
            n1 == IF node.right # None THEN Append(popped, node.right) ELSE popped
            n2 == IF node.left # None THEN Append(n1, node.left) ELSE n1 IN
        {nodes[k] : k \in 1..Len(nodes)}
            \cup (IF Table_index(t, cur).panic THEN {}
                  ELSE StackIndices(t, n2, fuel - 1))

\* The stacks iterators start with: iter, children of every prefix, and the
\* iterators of the live views.
StartStacks ==
    {<<0>>} \cup {lpm_children_iter_start(table, p) : p \in Prefixes}
            \cup {<<ViewLoc_idx(views[i])>> : i \in 1..Len(views)}

\* C27 (index validity): in every reachable state every left and right
\* link, the index of every view location and every index on the stack of
\* an iterator is below the length of the arena, so that the accessor of
\* the arena does not panic on it; on an index that is not below the length
\* the accessor panics and gives no node.
C27_IndexValidity ==
    LET Valid(idx) ==
            /\ idx \in Indices(table)
            /\ ~Table_index(table, idx).panic
            /\ ~Table_get_mut(table, idx).panic IN
    /\ \A idx \in Links(table) : Valid(idx)
    /\ \A i \in 1..Len(views) : Valid(ViewLoc_idx(views[i]))
    /\ \A s \in StartStacks :
          \A idx \in StackIndices(table, s, 2 * MaxNodes) : Valid(idx)
    /\ \A idx \in Len(table)..(MaxNodes + 1) :
          /\ Table_index(table, idx) = [panic |-> TRUE]
          /\ Table_get_mut(table, idx) = [panic |-> TRUE]

\* A full arena with a node a removal has detached from the tree, and a live
\* view below the root.
C27_Witness ==
    /\ Len(table) = MaxNodes
    /\ Reachable(table) # Indices(table)
    /\ \E i \in 1..Len(views) : ViewLoc_idx(views[i]) # 0

----------------------------------------------------------------------------
\* C28 (or_insert and and_modify): entry(p).or_insert(d) leaves the arena
\* as it is when p is stored, and otherwise does what insert(p, d) does;
\* afterwards get(p) gives a value (the one p had, or d) and every other key
\* has the value it had; and_modify on a vacant entry changes nothing, and
\* on an occupied one changes the value of p only.
C28_OrInsert ==
    \A p \in Prefixes :
        /\ \A d \in Values :
              LET t2 == Entry_or_insert(table, p, d) IN
              /\ stored[p] # None => t2 = table
              /\ stored[p] = None => t2 = Entry_insert(table, p, d)
              /\ get(t2, p) = (IF stored[p] # None THEN stored[p] ELSE d)
              /\ \A q \in Prefixes \ {p} : get(t2, q) = stored[q]
        /\ \A f \in [Values -> Values] :
              LET t3 == Entry_and_modify(table, p, f) IN
              /\ stored[p] = None => t3 = table
              /\ stored[p] # None => get(t3, p) = f[stored[p]]
              /\ \A q \in Prefixes \ {p} : get(t3, q) = stored[q]

\* Entries of every kind at once: a stored key with the marked value, a
\* vacant entry at a node without a value, and a vacant entry that needs a
\* new branching node.
C28_Witness ==
    /\ \E p \in StoredKeys : stored[p] = 2
    /\ \E p \in Prefixes \ {zero} : stored[p] = None /\ HasTreeNode(table, p)
    /\ \E p \in Prefixes : entry(table, p).direction.kind = "NewBranch"

----------------------------------------------------------------------------
\* C29 (NewBranch grafting): when the insertion path of target ends at a
\* node cur whose child on the side of target neither contains target nor is
\* contained in it, the prefix of the new branching node is
\* longest_common_prefix(target, child.prefix); cur.prefix contains it and
\* differs from it, it contains target and child.prefix and differs from
\* both, and to_right puts target and child.prefix on different sides of it;
\* after the insert the branching node hangs where the child was, has no
\* value and exactly two children: the new node of target on the side
\* to_right gives for target, the old child on the other.
C29_NewBranch ==
    \A target \in Prefixes : \A v \in Values :
        LET e == entry(table, target)
            d == e.direction
            cur == e.idx
            child == get_child(table, cur, to_right(Nd(table, cur).prefix, target)) IN
        IF Nd(table, cur).prefix # target /\ child # None
           /\ ~contains(Nd(table, child).prefix, target)
           /\ ~contains(target, Nd(table, child).prefix)
        THEN
            LET cur_p == Nd(table, cur).prefix
                child_p == Nd(table, child).prefix
                b == longest_common_prefix(target, child_p)
                t2 == Entry_insert(table, target, v)
                branch == get_child(t2, cur, d.right)
                new == get_child(t2, branch, to_right(b, target)) IN
            /\ d.kind = "NewBranch"
            /\ d.branch_prefix = b
            /\ contains(cur_p, b) /\ b # cur_p
            /\ contains(b, target) /\ b # target
            /\ contains(b, child_p) /\ b # child_p
            /\ to_right(b, target) # to_right(b, child_p)
            /\ d.right = to_right(cur_p, target)
            /\ branch \notin Indices(table) /\ branch \in Indices(t2)
            /\ Nd(t2, branch).prefix = b
            /\ Nd(t2, branch).value = None
            /\ NumChildren(Nd(t2, branch)) = 2
            /\ new \notin Indices(table) /\ new \in Indices(t2)
            /\ Nd(t2, new) = Node(target, v, None, None)
            /\ get_child(t2, branch, to_right(b, child_p)) = child
            /\ Nd(t2, child) = Nd(table, child)
        ELSE d.kind # "NewBranch"

\* An insert would graft a branching node above a child that holds the
\* marked value, and the arena has room for it.
C29_Witness ==
    \E target \in Prefixes :
        LET e == entry(table, target) IN
        /\ e.direction.kind = "NewBranch"
        /\ Len(table) + 2 <= MaxNodes
        /\ Nd(table, get_child(table, e.idx, e.direction.right)).value = 2

----------------------------------------------------------------------------
\* C30 (NewChild splicing): when the insertion path of target ends at a node
\* cur whose child on the side of target is contained in target and differs
\* from it, after the insert the link of cur on that side is to the new
\* node, the other link of cur is as before, the new node holds target and
\* the inserted value and has the old child as its only child, on the side
\* to_right(target, child.prefix), and every node of the subtree of the old
\* child is as before.
C30_NewChild ==
    \A target \in Prefixes : \A v \in Values :
        LET e == entry(table, target)
            d == e.direction
            cur == e.idx
            side == to_right(Nd(table, cur).prefix, target)
            child == get_child(table, cur, side) IN
        IF Nd(table, cur).prefix # target /\ child # None
           /\ contains(target, Nd(table, child).prefix)
           /\ ~contains(Nd(table, child).prefix, target)
        THEN
            LET child_p == Nd(table, child).prefix
                t2 == Entry_insert(table, target, v)
                new == get_child(t2, cur, side) IN
            /\ d.kind = "NewChild"
            /\ new = Len(table) /\ Len(t2) = Len(table) + 1
            /\ get_child(t2, cur, ~side) = get_child(table, cur, ~side)
            /\ Nd(t2, new).prefix = target
            /\ Nd(t2, new).value = v
            /\ get_child(t2, new, to_right(target, child_p)) = child
            /\ get_child(t2, new, ~to_right(target, child_p)) = None
            /\ \A i \in SubtreeAt(table, child) : Nd(t2, i) = Nd(table, i)
            /\ SubtreeAt(t2, child) = SubtreeAt(table, child)
        ELSE d.kind # "NewChild"

\* An insert would splice a node above a child that holds the marked value,
\* next to a sibling subtree, and the arena has room for it.
C30_Witness ==
    \E target \in Prefixes :
        LET e == entry(table, target) IN
        /\ e.direction.kind = "NewChild"
        /\ Len(table) + 1 <= MaxNodes
        /\ Nd(table, get_child(table, e.idx, e.direction.right)).value = 2
        /\ get_child(table, e.idx, ~e.direction.right) # None

----------------------------------------------------------------------------
\* The links of the nodes of t that differ in t2, as pairs of an index and a
\* side (TRUE for right).
ChangedLinks(t, t2) ==
    {<<i, right>> \in Indices(t) \X BOOLEAN : get_child(t2, i, right) # get_child(t, i, right)}

\* C31 (insert frame): an insert that creates nodes changes exactly one link
\* of exactly one node the arena had before, the link of the node at the
\* end of the descent on the side of target; every other node the arena had
\* keeps both links, and every node the arena had keeps its prefix and its
\* value.
C31_InsertFrame ==
    \A target \in Prefixes : \A v \in Values :
        LET e == entry(table, target)
            t2 == Entry_insert(table, target, v) IN
        Len(t2) > Len(table) =>
            /\ e.direction.kind \in {"NewLeaf", "NewChild", "NewBranch"}
            /\ ChangedLinks(table, t2) =
                  {<<e.idx, to_right(Nd(table, e.idx).prefix, target)>>}
            /\ \A i \in Indices(table) :
                  /\ Nd(t2, i).prefix = Nd(table, i).prefix
                  /\ Nd(t2, i).value = Nd(table, i).value

\* An insert would hang a new leaf below a node other than the root that has
\* a child on the other side, and the arena has room for it.
C31_Witness ==
    \E target \in Prefixes :
        LET e == entry(table, target) IN
        /\ e.direction.kind = "NewLeaf"
        /\ e.idx # 0
        /\ NumChildren(Nd(table, e.idx)) = 1
        /\ Len(table) < MaxNodes

----------------------------------------------------------------------------
\* The indices an iterator pops, in the order it pops them, from the stack
\* nodes until the stack is empty: the loop of Iter::next, IterMut::next and
\* IntoIter::next pops an index and pushes the right and then the left child
\* of its node.
RECURSIVE Iter_pops(_, _)
Iter_pops(t, nodes) ==
    IF nodes = <<>> THEN <<>>
    ELSE
        LET cur == nodes[Len(nodes)]
            node == Nd(t, cur)
            popped == SubSeq(nodes, 1, Len(nodes) - 1)
            n1 == IF node.right # None THEN Append(popped, node.right) ELSE popped
            n2 == IF node.left # None THEN Append(n1, node.left) ELSE n1 IN
        <<cur>> \o Iter_pops(t, n2)

\* The stack an iterator is left with by the call of next that returns
\* nothing.
RECURSIVE Iter_exhausted(_, _)
Iter_exhausted(t, nodes) ==
    LET r == Iter_next(t, nodes) IN
    IF r.item = NoItem THEN r.nodes ELSE Iter_exhausted(t, r.nodes)

RECURSIVE IterMut_exhausted(_, _)
IterMut_exhausted(t, nodes) ==
    LET r == IterMut_next(t, nodes) IN
    IF r.item = None THEN r.nodes ELSE IterMut_exhausted(t, r.nodes)

\* A sequence without a repeated element.
Injective(s) == \A j, k \in 1..Len(s) : j # k => s[j] # s[k]

SeqRange(s) == {s[k] : k \in 1..Len(s)}

\* C32 (single visit): an iterator seeded with the index i of a node of the
\* tree pops every node of the subtree of i once and no other node; the
\* nodes IterMut gives a mutable reference to are the nodes of that subtree
\* with a value, each once, and Iter yields the prefix and value of the same
\* nodes in the same order; after next has returned nothing it returns
\* nothing again.
C32_SingleVisit ==
    \A i \in Reachable(table) :
        LET pops == Iter_pops(table, <<i>>)
            muts == IterMut_collect(table, <<i>>)
            items == Iter_collect(table, <<i>>)
            valued == {n \in SubtreeAt(table, i) : Nd(table, n).value # None} IN
        /\ Injective(pops)
        /\ SeqRange(pops) = SubtreeAt(table, i)
        /\ Injective(muts)
        /\ SeqRange(muts) = valued
        /\ Len(items) = Len(muts)
        /\ \A k \in 1..Len(items) :
              items[k] = <<Nd(table, muts[k]).prefix, Nd(table, muts[k]).value>>
        /\ Iter_next(table, Iter_exhausted(table, <<i>>)).item = NoItem
        /\ IterMut_next(table, IterMut_exhausted(table, <<i>>)).item = None

\* A node below the root whose value was removed with the tree kept, with a
\* stored entry below it and a stored entry outside its subtree.
C32_Witness ==
    \E i \in Reachable(table) \ {0} :
        /\ Nd(table, i).value = None
        /\ \E n \in SubtreeAt(table, i) : Nd(table, n).value # None
        /\ \E n \in Reachable(table) \ SubtreeAt(table, i) : Nd(table, n).value # None
        /\ NumChildren(Nd(table, i)) = 1

----------------------------------------------------------------------------
(* The flavours of the iterators                                           *)

\* IntoIter::next giving the prefix left in the node once it is replaced
\* by zero.
RECURSIVE IntoIter_next_prefix_replaced(_, _)
IntoIter_next_prefix_replaced(t, nodes) ==
    IF nodes = <<>> THEN [item |-> NoItem, nodes |-> nodes, table |-> t]
    ELSE
        LET cur == nodes[Len(nodes)]
            node == Nd(t, cur)
            popped == SubSeq(nodes, 1, Len(nodes) - 1)
            n1 == IF node.right # None THEN Append(popped, node.right) ELSE popped
            n2 == IF node.left # None THEN Append(n1, node.left) ELSE n1 IN
        IF node.value # None
        THEN [item |-> <<zero, node.value>>, nodes |-> n2,
              table |-> [t EXCEPT ![cur + 1].value = None, ![cur + 1].prefix = zero]]
        ELSE IntoIter_next_prefix_replaced(t, n2)

\* IntoIter::next: the iterator owns the table; the value of the node is
\* taken out of it and its prefix is replaced by zero.
RECURSIVE IntoIter_next(_, _)
IntoIter_next(t, nodes) ==
    IF nodes = <<>> THEN [item |-> NoItem, nodes |-> nodes, table |-> t]
    ELSE
        LET cur == nodes[Len(nodes)]
            node == Nd(t, cur)
            popped == SubSeq(nodes, 1, Len(nodes) - 1)
            n1 == IF node.right # None THEN Append(popped, node.right) ELSE popped
            n2 == IF node.left # None THEN Append(n1, node.left) ELSE n1 IN
        IF node.value # None
        THEN [item |-> <<node.prefix, node.value>>, nodes |-> n2,
              table |-> [t EXCEPT ![cur + 1].value = None, ![cur + 1].prefix = zero]]
        ELSE IntoIter_next(t, n2)

RECURSIVE IntoIter_collect(_, _)
IntoIter_collect(t, nodes) ==
    LET r == IntoIter_next(t, nodes) IN
    IF r.item = NoItem THEN <<>>
    ELSE <<r.item>> \o IntoIter_collect(r.table, r.nodes)

\* What IterMut yields: the prefix and (a mutable reference to) the value
\* of each node.
IterMut_items(t, nodes) ==
    LET s == IterMut_collect(t, nodes) IN
    [k \in 1..Len(s) |-> <<Nd(t, s[k]).prefix, Nd(t, s[k]).value>>]

\* Keys::next, Values::next, ValuesMut::next, IntoKeys::next and
\* IntoValues::next: the first or the second component of the item of the
\* inner iterator.
Keys_of(items) == [k \in 1..Len(items) |-> items[k][1]]

Values_of(items) == [k \in 1..Len(items) |-> items[k][2]]

\* PrefixMap::iter_mut, into_iter, keys, into_keys, values, values_mut,
\* into_values, children_mut and into_children
iter_mut(t) == IterMut_items(t, <<0>>)

into_iter(t) == IntoIter_collect(t, <<0>>)

keys(t) == Keys_of(iter(t))

into_keys(t) == Keys_of(IntoIter_collect(t, <<0>>))

values(t) == Values_of(iter(t))

values_mut(t) == Values_of(iter_mut(t))

into_values(t) == Values_of(IntoIter_collect(t, <<0>>))

children_mut(t, prefix) == IterMut_items(t, lpm_children_iter_start(t, prefix))

into_children(t, prefix) == IntoIter_collect(t, lpm_children_iter_start(t, prefix))

\* C33 (iterator flavours agree): on the same trie iter, iter_mut and
\* into_iter yield the same sequence of prefixes and values, the stored
\* entries in ascending order; keys and into_keys yield its prefixes and
\* values, values_mut and into_values its values, in that order; and for
\* every prefix p, children(p), children_mut(p) and into_children(p) yield
\* the same sequence.
C33_FlavoursAgree ==
    LET all == EntriesOf(StoredKeys) IN
    /\ iter(table) = all
    /\ iter_mut(table) = all
    /\ into_iter(table) = all
    /\ keys(table) = [k \in 1..Len(all) |-> all[k][1]]
    /\ into_keys(table) = keys(table)
    /\ values(table) = [k \in 1..Len(all) |-> all[k][2]]
    /\ values_mut(table) = values(table)
    /\ into_values(table) = values(table)
    /\ \A p \in Prefixes :
          /\ children_mut(table, p) = children(table, p)
          /\ into_children(table, p) = children(table, p)

\* Three stored entries, a prefix whose children are some of them but not
\* all, and a node of the tree without a value.
C33_Witness ==
    /\ Cardinality(StoredKeys) = 3
    /\ \E p \in Prefixes :
          /\ Len(children(table, p)) = 2
          /\ stored[p] = None
    /\ \E n \in Reachable(table) \ {0} : Nd(table, n).value = None

----------------------------------------------------------------------------
(* The descent loops, with a count of their iterations                     *)

\* A descent loop that does not move on to the child it enters.
RECURSIVE Descent_stays(_, _, _, _)
Descent_stays(t, idx, prefix, fuel) ==
    IF fuel = 0 THEN <<idx>>
    ELSE IF get_direction(t, idx, prefix).kind = "Enter"
    THEN <<idx>> \o Descent_stays(t, idx, prefix, fuel - 1)
    ELSE <<idx>>

\* The loop of find_exact, find_lpm, get and Cover::next: the indices idx
\* takes, as long as get_direction gives Enter; at most fuel iterations are
\* followed.
RECURSIVE Descent(_, _, _, _)
Descent(t, idx, prefix, fuel) ==
    IF fuel = 0 THEN <<idx>>
    ELSE LET d == get_direction(t, idx, prefix) IN
         IF d.kind = "Enter"
         THEN <<idx>> \o Descent(t, d.next, prefix, fuel - 1)
         ELSE <<idx>>

\* The loop of find and of the insertion path search (entry), on
\* get_direction_for_insert.
RECURSIVE DescentForInsert(_, _, _, _)
DescentForInsert(t, idx, prefix, fuel) ==
    IF fuel = 0 THEN <<idx>>
    ELSE LET d == get_direction_for_insert(t, idx, prefix) IN
         IF d.kind = "Enter"
         THEN <<idx>> \o DescentForInsert(t, d.next, prefix, fuel - 1)
         ELSE <<idx>>

\* The loop of lpm_children_iter_start: the traversal continues into the
\* child on the side of prefix while the prefix of the child contains prefix.
ChildrenContinues(t, idx, prefix) ==
    /\ Nd(t, idx).prefix # prefix
    /\ get_child(t, idx, to_right(Nd(t, idx).prefix, prefix)) # None
    /\ contains(Nd(t, get_child(t, idx, to_right(Nd(t, idx).prefix, prefix))).prefix, prefix)

RECURSIVE DescentChildren(_, _, _, _)
DescentChildren(t, idx, prefix, fuel) ==
    IF fuel = 0 THEN <<idx>>
    ELSE IF ChildrenContinues(t, idx, prefix)
         THEN <<idx>> \o DescentChildren(t,
                    get_child(t, idx, to_right(Nd(t, idx).prefix, prefix)), prefix, fuel - 1)
         ELSE <<idx>>

\* The depth of the tree: the largest number of links from the root to a
\* node.
Depth(t) ==
    CHOOSE n \in 0..Len(t) :
        /\ ReachN(t, {0}, n) = Reachable(t)
        /\ \A m \in 0..(n - 1) : ReachN(t, {0}, m) # Reachable(t)

\* Every step of a descent goes to a node with a prefix that the prefix of
\* the node before contains and differs from.
Descends(t, path) ==
    \A k \in 1..(Len(path) - 1) :
        /\ contains(Nd(t, path[k]).prefix, Nd(t, path[k + 1]).prefix)
        /\ Nd(t, path[k]).prefix # Nd(t, path[k + 1]).prefix

\* C34 (bounded descent): on every reachable trie and for every prefix the
\* loops of find_exact, find_lpm and cover (get_direction), of find and the
\* insertion path search (get_direction_for_insert) and of the children
\* start search end, from every node of the tree a view can be at: no loop
\* is still entering a child after as many steps as the tree is deep, and
\* every step goes to a child with a strictly more specific prefix.
C34_BoundedDescent ==
    LET depth == Depth(table)
        fuel == Len(table) + 1 IN
    \A prefix \in Prefixes : \A start \in Reachable(table) :
        LET p1 == Descent(table, start, prefix, fuel)
            p2 == DescentForInsert(table, start, prefix, fuel)
            p3 == DescentChildren(table, start, prefix, fuel) IN
        /\ Len(p1) - 1 <= depth
        /\ Len(p2) - 1 <= depth
        /\ Len(p3) - 1 <= depth
        /\ get_direction(table, p1[Len(p1)], prefix).kind # "Enter"
        /\ get_direction_for_insert(table, p2[Len(p2)], prefix).kind # "Enter"
        /\ ~ChildrenContinues(table, p3[Len(p3)], prefix)
        /\ Descends(table, p1) /\ Descends(table, p2) /\ Descends(table, p3)
        /\ start = 0 => entry(table, prefix).idx = p2[Len(p2)]

\* A tree of depth two in which a descent takes as many steps as the tree
\* is deep, next to a node a removal has detached from the tree.
C34_Witness ==
    /\ Depth(table) = 2
    /\ \E prefix \in Prefixes : Len(Descent(table, 0, prefix, Len(table) + 1)) = 3
    /\ Reachable(table) # Indices(table)

----------------------------------------------------------------------------
\* A result of the mutable view and a result of the read-only view are the
\* same: Ok with the location of Some, or Err and None.
SameResult(r, o) == IF r.ok THEN o = r.loc ELSE o = NoView

\* The locations a view can be at: those of the live mutable views, and the
\* ones view_at gives.
Locations ==
    ({views[i] : i \in 1..Len(views)} \cup {view_at(table, p) : p \in Prefixes}) \ {NoView}

\* C35 (read-only and mutable views agree): on the same trie, from the same
\* location and with the same argument, find, find_exact, find_lpm, left
\* and right give Ok on the mutable view exactly when they give Some on the
\* read-only view, with the same location (the same node, or the same
\* virtual prefix above the same child); view_mut_at agrees with view_at.
C35_ViewsAgree ==
    /\ \A V \in Locations :
          /\ SameResult(TrieViewMut_left(table, V), TrieView_left(table, V))
          /\ SameResult(TrieViewMut_right(table, V), TrieView_right(table, V))
          /\ \A p \in Prefixes :
                /\ SameResult(TrieViewMut_find(table, V, p), TrieView_find(table, V, p))
                /\ SameResult(TrieViewMut_find_exact(table, V, p),
                              TrieView_find_exact(table, V, p))
                /\ SameResult(TrieViewMut_find_lpm(table, V, p),
                              TrieView_find_lpm(table, V, p))
    /\ \A p \in Prefixes : view_mut_at(table, p) = view_at(table, p)

\* A live view at a node below the root from which one find fails and one
\* find_lpm succeeds, and a live view at a virtual location whose child is
\* on the right.
C35_Witness ==
    /\ \E i \in 1..Len(views) :
          /\ views[i].kind = "Node"
          /\ views[i].idx # 0
          /\ \E p \in Prefixes : ~TrieViewMut_find(table, views[i], p).ok
          /\ \E p \in Prefixes : TrieViewMut_find_lpm(table, views[i], p).ok
    /\ \E j \in 1..Len(views) :
          /\ views[j].kind = "Virtual"
          /\ TrieViewMut_right(table, views[j]).ok

----------------------------------------------------------------------------
\* What find gave for p is at p: its prefix() is p, and it is at a virtual
\* location only when no node of the arena has the prefix p.
FoundAt(t, f, p) ==
    f # NoView =>
        /\ TrieView_prefix(t, f) = p
        /\ f.kind = "Virtual" => \A n \in Indices(t) : Nd(t, n).prefix # p

\* C36 (a found view is at the prefix asked for): a view that find(p) or
\* view_at(p) gives reports prefix() equal to p, at a stored node, at a
\* branching node without a value and at a virtual location; and it is at a
\* virtual location only when no node of the arena has the prefix p.
C36_FoundPrefix ==
    \A p \in Prefixes :
        /\ FoundAt(table, view_at(table, p), p)
        /\ FoundAt(table, view_mut_at(table, p), p)
        /\ \A V \in Locations :
              /\ FoundAt(table, TrieView_find(table, V, p), p)
              /\ FoundAt(table, TrieViewMut_find(table, V, p).loc, p)
                    \/ ~TrieViewMut_find(table, V, p).ok

\* The same for view_at and view_mut_at alone, which search from the root.
C36_FoundPrefixFromRoot ==
    \A p \in Prefixes :
        /\ FoundAt(table, view_at(table, p), p)
        /\ FoundAt(table, view_mut_at(table, p), p)

----------------------------------------------------------------------------
\* The field idx of a cover iterator after the call of next that returns
\* nothing.
RECURSIVE Cover_exhausted(_, _, _)
Cover_exhausted(t, idx, prefix) ==
    LET r == Cover_next(t, idx, prefix) IN
    IF r.item = NoItem THEN r.idx ELSE Cover_exhausted(t, r.idx, prefix)

\* C37 (cover is exhausted for good): for every prefix p, once the cover(p)
\* iterator has returned nothing, after Missing or after reaching p, the
\* next two calls of next return nothing and leave the iterator where it
\* is; and the iterator yields no entry twice, the root entry included.
C37_CoverExhausted ==
    \A p \in Prefixes :
        LET done == Cover_exhausted(table, None, p)
            again == Cover_next(table, done, p) IN
        /\ done # None
        /\ again = [item |-> NoItem, idx |-> done]
        /\ Cover_next(table, again.idx, p) = again
        /\ Injective(cover(table, p))

\* The root holds a value; one cover of two entries ends at its prefix, and
\* the cover of a prefix that has no node ends at a node below the root.
C37_Witness ==
    /\ Nd(table, 0).value # None
    /\ \E p \in StoredKeys : Len(cover(table, p)) = 2
    /\ \E p \in Prefixes :
          /\ ~HasTreeNode(table, p)
          /\ Cover_exhausted(table, None, p) # 0

====
